---- MODULE Spec2Model ----
(***************************************************************************)
(* Model of the syntax protection and table extension engine of umd-core.  *)
(*                                                                         *)
(* Text is modelled character by character: a Rust String is a sequence of *)
(* one-character strings, so that the regular expressions and the string   *)
(* methods of the source are computed as the code computes them.           *)
(*                                                                         *)
(* The module holds several specifications, one per part of the engine:    *)
(*   SpecTable     parse_table's tokenizer and process_cell_spanning       *)
(*   SpecClassify  is_umd_table                                            *)
(*   SpecPlugin    protect_inline_plugins, protect_block_plugins and the    *)
(*                 plugin restoration of postprocess_conflicts              *)
(*   SpecDoc       preprocess_conflicts, the embedded renderer and          *)
(*                 postprocess_conflicts on a document of lines             *)
(*   SpecExtract   SpecDoc's steps on documents of table blocks             *)
(*   SpecHtml      SpecTable's steps on tables of decorated cells           *)
(*   SpecMarker    SpecPlugin's steps on markers written in the input       *)
(*   SpecDefList   SpecDoc's steps on documents of definition lines         *)
(*   SpecOpaque    SpecPlugin's steps on calls with Markdown in their args  *)
(*   SpecEntity    SpecPlugin's steps on texts of entity references         *)
(*   SpecComments  remove_comments on documents with comments               *)
(*   SpecSpanSteps process_colspan and process_rowspan, one statement a     *)
(*                 step; SpecSpanStepsFair adds that a statement that can   *)
(*                 run does run                                             *)
(*   SpecCalls     two calls of parse_with_frontmatter, interleaved         *)
(*   SpecPre       the pre-processing stages of parse_with_frontmatter      *)
(*   SpecPost      the stages of postprocess_conflicts, one group a step    *)
(*   SpecAnchors   SpecDoc's steps on headings with numeric custom ids      *)
(***************************************************************************)
EXTENDS Integers, Sequences, FiniteSets, TLC

VARIABLES
    tlines,      \* table: the raw lines handed to parse_table
    tstage,      \* table: position in parse_table
    tok,         \* table: rows as tokenized (before process_cell_spanning)
    cols,        \* table: rows after process_colspan
    once,        \* table: rows after one process_cell_spanning
    rows,        \* table: the rows vector (Vec<Vec<Cell>>), current value
    thtml,       \* table: the string parse_table returned
    loop,        \* table: the loop counters of process_colspan / process_rowspan
    clines,      \* classify: the lines handed to is_umd_table
    cstage,      \* classify: "input" or "classified"
    verdict,     \* classify: the value is_umd_table returned
    pcall,       \* plugin: the plugin call as written (form, function, args, content)
    ptext,       \* plugin: the text, current value
    pstage,      \* plugin: position between protection and restoration
    pmarked,     \* plugin: the text as the protectors left it
    captured,    \* plugin: the captures of the protectors, in order
    restored,    \* plugin: the captures of the restorers, in order
    dlines,      \* doc: the lines of the input document
    dtext,       \* doc: the text, current value
    dstage,      \* doc: position in the pipeline
    header_map,  \* doc: HeaderIdMap: ids (heading number -> custom id), tables
    anchors      \* doc: the anchor ids injected, in order

tableVars == <<tlines, tstage, tok, cols, once, rows, thtml, loop>>
classifyVars == <<clines, cstage, verdict>>
pluginVars == <<pcall, ptext, pstage, pmarked, captured, restored>>
docVars == <<dlines, dtext, dstage, header_map, anchors>>

vars == <<tableVars, classifyVars, pluginVars, docVars>>

\* The value of the position variable of a part that is not running.
Idle == "idle"

TableIdle ==
    /\ tlines = <<>> /\ tstage = Idle
    /\ tok = <<>> /\ cols = <<>> /\ once = <<>> /\ rows = <<>> /\ thtml = <<>>
    /\ loop = <<>>

ClassifyIdle == clines = <<>> /\ cstage = Idle /\ verdict = FALSE

PluginIdle ==
    /\ pcall = <<>> /\ ptext = <<>> /\ pstage = Idle
    /\ pmarked = <<>> /\ captured = <<>> /\ restored = <<>>

\* HeaderIdMap::new
HeaderIdMap_new == [ids |-> <<>>, tables |-> <<>>]

DocIdle ==
    /\ dlines = <<>> /\ dtext = <<>> /\ dstage = Idle
    /\ header_map = HeaderIdMap_new /\ anchors = <<>>

-----------------------------------------------------------------------------
(* Bounds of the model. *)

\* The largest number of cells written in one table.
MaxCells == 4

\* The largest number of lines of a block handed to is_umd_table.
MaxBlockLines == 3

-----------------------------------------------------------------------------
(* String methods of the Rust standard library, on character sequences. *)

\* char::is_whitespace, for the characters of the model's alphabets.
IsWhitespace(c) == c \in {" ", "\t", "\n"}

\* str::starts_with at offset i (1-based).
IsPrefixAt(s, p, i) ==
    /\ i >= 1
    /\ i + Len(p) - 1 <= Len(s)
    /\ \A k \in 1..Len(p) : s[i + k - 1] = p[k]

\* str::starts_with
StartsWith(s, p) == IsPrefixAt(s, p, 1)

\* str::ends_with
EndsWith(s, p) == Len(s) >= Len(p) /\ IsPrefixAt(s, p, Len(s) - Len(p) + 1)

\* str::contains
Contains(s, p) == \E i \in 1..(Len(s) - Len(p) + 1) : IsPrefixAt(s, p, i)

\* str::trim_start
RECURSIVE TrimStart(_)
TrimStart(s) ==
    IF s # <<>> /\ IsWhitespace(Head(s)) THEN TrimStart(Tail(s)) ELSE s

\* str::trim_end
RECURSIVE TrimEnd(_)
TrimEnd(s) ==
    IF s # <<>> /\ IsWhitespace(s[Len(s)])
    THEN TrimEnd(SubSeq(s, 1, Len(s) - 1))
    ELSE s

\* str::trim
Trim(s) == TrimEnd(TrimStart(s))

\* str::trim_end_matches(p): removes every trailing repetition of p.
RECURSIVE TrimEndMatches(_, _)
TrimEndMatches(s, p) ==
    IF p # <<>> /\ EndsWith(s, p)
    THEN TrimEndMatches(SubSeq(s, 1, Len(s) - Len(p)), p)
    ELSE s

\* Vec::remove(i): the sequence without its i-th element (1-based).
RemoveAt(s, i) == SubSeq(s, 1, i - 1) \o SubSeq(s, i + 1, Len(s))

\* Concatenation of a sequence of sequences.
RECURSIVE Flatten(_)
Flatten(ss) == IF ss = <<>> THEN <<>> ELSE Head(ss) \o Flatten(Tail(ss))

\* Iterator::max of the row lengths, 0 for no rows (unwrap_or(0)).
RECURSIVE MaxLen(_)
MaxLen(rs) ==
    IF rs = <<>> THEN 0
    ELSE LET m == MaxLen(Tail(rs))
         IN  IF Len(Head(rs)) > m THEN Len(Head(rs)) ELSE m

-----------------------------------------------------------------------------
(* Literals of the table grammar. *)

COLSPAN_MARKER == <<"|", ">">>
ROWSPAN_MARKER == <<"|", "^">>
COLSPAN_SUFFIX == <<" ", "|", ">">>

-----------------------------------------------------------------------------
(* Cell, parser.rs *)

\* Cell::new
Cell_new(content, is_header) ==
    [content |-> content, is_header |-> is_header, colspan |-> 1,
     rowspan |-> 1, classes |-> <<>>, styles |-> <<>>]

\* The alignment prefixes of parse_cell_content, in the order of its loop.
ALIGN_PREFIXES ==
    << [prefix |-> <<"T","O","P",":">>,                     class |-> <<"a", "l", "i", "g", "n", "-", "t", "o", "p">>],
       [prefix |-> <<"M","I","D","D","L","E",":">>,         class |-> <<"a", "l", "i", "g", "n", "-", "m", "i", "d", "d", "l", "e">>],
       [prefix |-> <<"B","O","T","T","O","M",":">>,         class |-> <<"a", "l", "i", "g", "n", "-", "b", "o", "t", "t", "o", "m">>],
       [prefix |-> <<"B","A","S","E","L","I","N","E",":">>, class |-> <<"a", "l", "i", "g", "n", "-", "b", "a", "s", "e", "l", "i", "n", "e">>],
       [prefix |-> <<"R","I","G","H","T",":">>,             class |-> <<"t", "e", "x", "t", "-", "e", "n", "d">>],
       [prefix |-> <<"C","E","N","T","E","R",":">>,         class |-> <<"t", "e", "x", "t", "-", "c", "e", "n", "t", "e", "r">>],
       [prefix |-> <<"L","E","F","T",":">>,                 class |-> <<"t", "e", "x", "t", "-", "s", "t", "a", "r", "t">>],
       [prefix |-> <<"J","U","S","T","I","F","Y",":">>,     class |-> <<"t", "e", "x", "t", "-", "j", "u", "s", "t", "i", "f", "y">>] >>

\* The header check of parse_cell_content: a leading `~` sets is_header and
\* is stripped, the rest trimmed. st is [cell, remaining].
StripHeaderMarker(st) ==
    IF StartsWith(st.remaining, <<"~">>)
    THEN [cell |-> [st.cell EXCEPT !.is_header = TRUE],
          remaining |-> Trim(Tail(st.remaining))]
    ELSE st

\* The alignment loop of parse_cell_content from its k-th prefix on.
RECURSIVE StripAlignPrefixes(_, _)
StripAlignPrefixes(st, k) ==
    IF k > Len(ALIGN_PREFIXES) THEN st
    ELSE LET e == ALIGN_PREFIXES[k]
         IN  IF StartsWith(st.remaining, e.prefix)
             THEN StripAlignPrefixes(
                      [cell |-> [st.cell EXCEPT
                                   !.classes = Append(@, e.class)],
                       remaining |-> Trim(SubSeq(st.remaining,
                                                 Len(e.prefix) + 1,
                                                 Len(st.remaining)))],
                      k + 1)
             ELSE StripAlignPrefixes(st, k + 1)

\* str::split(c): the pieces of s between the occurrences of the character c.
RECURSIVE Split(_, _)
Split(s, c) ==
    IF \E i \in 1..Len(s) : s[i] = c
    THEN LET n == CHOOSE i \in 1..Len(s) : s[i] = c /\ \A k \in 1..(i - 1) : s[k] # c
         IN  <<SubSeq(s, 1, n - 1)>> \o Split(SubSeq(s, n + 1, Len(s)), c)
    ELSE <<s>>

\* is_bootstrap_color
BOOTSTRAP_COLORS ==
    { <<"p", "r", "i", "m", "a", "r", "y">>, <<"s", "e", "c", "o", "n", "d", "a", "r", "y">>, <<"s", "u", "c", "c", "e", "s", "s">>, <<"d", "a", "n", "g", "e", "r">>, <<"w", "a", "r", "n", "i", "n", "g">>, <<"i", "n", "f", "o">>,
      <<"l", "i", "g", "h", "t">>, <<"d", "a", "r", "k">>, <<"b", "l", "u", "e">>, <<"i", "n", "d", "i", "g", "o">>, <<"p", "u", "r", "p", "l", "e">>, <<"p", "i", "n", "k">>, <<"r", "e", "d">>,
      <<"o", "r", "a", "n", "g", "e">>, <<"y", "e", "l", "l", "o", "w">>, <<"g", "r", "e", "e", "n">>, <<"t", "e", "a", "l">>, <<"c", "y", "a", "n">>, <<"b", "l", "a", "c", "k">>, <<"w", "h", "i", "t", "e">>,
      <<"g", "r", "a", "y">>, <<"g", "r", "a", "y", "-", "d", "a", "r", "k">>, <<"g", "r", "a", "y", "-", "1", "0", "0">>, <<"g", "r", "a", "y", "-", "2", "0", "0">>, <<"g", "r", "a", "y", "-", "3", "0", "0">>, <<"g", "r", "a", "y", "-", "4", "0", "0">>,
      <<"g", "r", "a", "y", "-", "5", "0", "0">>, <<"g", "r", "a", "y", "-", "6", "0", "0">>, <<"g", "r", "a", "y", "-", "7", "0", "0">>, <<"g", "r", "a", "y", "-", "8", "0", "0">>, <<"g", "r", "a", "y", "-", "9", "0", "0">> }

is_bootstrap_color(color) == color \in BOOTSTRAP_COLORS

\* The colour arm of the COLOR step, lines 46-52 and 54-60: nothing for an
\* empty value or `inherit`, a class for a Bootstrap name, a style otherwise.
PushColor(cell, value, class_prefix, property) ==
    IF value = <<>> \/ value = <<"i", "n", "h", "e", "r", "i", "t">> THEN cell
    ELSE IF is_bootstrap_color(value)
    THEN [cell EXCEPT !.classes = Append(@, class_prefix \o value)]
    ELSE [cell EXCEPT !.styles = Append(@, property \o value)]

\* The offset of the `)` that closes NAME( at the start of r when a colon
\* follows it, 0 otherwise: ^NAME\(([^)]*)\): with at least `least` characters
\* between the parentheses.
DecorationCallEnd(r, name, least) ==
    LET from == Len(name) + 2
        closes == { i \in from..Len(r) : r[i] = ")" }
        close == IF closes = {} THEN 0
                 ELSE CHOOSE i \in closes : \A k \in closes : i <= k
    IN  IF StartsWith(r, name \o <<"(">>) /\ close # 0 /\ close - from >= least
           /\ IsPrefixAt(r, <<":">>, close + 1)
        THEN close ELSE 0

\* The COLOR step of parse_cell_content, lines 37-61:
\* ^COLOR\(([^)]*)\):\s*(.*)$
ColorStep(st) ==
    LET r == st.remaining
        close == DecorationCallEnd(r, <<"C", "O", "L", "O", "R">>, 0)
    IN  IF close = 0 THEN st
        ELSE LET parts == Split(SubSeq(r, 7, close - 1), ",")
                 fg == Trim(parts[1])
                 bg == IF Len(parts) >= 2 THEN Trim(parts[2]) ELSE <<>>
             IN  [cell |-> PushColor(PushColor(st.cell, fg, <<"t", "e", "x", "t", "-">>, <<"c", "o", "l", "o", "r", ":", " ">>),
                                     bg, <<"b", "g", "-">>, <<"b", "a", "c", "k", "g", "r", "o", "u", "n", "d", "-", "c", "o", "l", "o", "r", ":", " ">>),
                  remaining |-> TrimStart(SubSeq(r, close + 2, Len(r)))]

DecimalDigits == <<"0", "1", "2", "3", "4", "5", "6", "7", "8", "9">>

IsDecimalDigit(c) == \E k \in 1..Len(DecimalDigits) : DecimalDigits[k] = c

\* The number a run of decimal digits writes.
RECURSIVE NatValue(_)
NatValue(ds) ==
    IF ds = <<>> THEN 0
    ELSE NatValue(SubSeq(ds, 1, Len(ds) - 1)) * 10
         + (CHOOSE k \in 1..Len(DecimalDigits) : DecimalDigits[k] = ds[Len(ds)]) - 1

\* value.parse::<f32>() for the values written as [+-]digits[.digits]: ok and
\* the number in thousandths, rounded towards zero (the thresholds of
\* get_bootstrap_size_class are multiples of a thousandth). The exponent,
\* `inf` and `nan` forms that f32's parser also accepts are not modelled.
parse_f32(value) ==
    LET signed == value # <<>> /\ value[1] \in {"+", "-"}
        body == IF signed THEN Tail(value) ELSE value
        parts == Split(body, ".")
        int == parts[1]
        frac == IF Len(parts) = 2 THEN parts[2] ELSE <<>>
        ok == /\ Len(parts) <= 2
              /\ int \o frac # <<>>
              /\ \A i \in 1..Len(int) : IsDecimalDigit(int[i])
              /\ \A i \in 1..Len(frac) : IsDecimalDigit(frac[i])
        magnitude == NatValue(int) * 1000 + NatValue(SubSeq(frac \o <<"0", "0", "0">>, 1, 3))
    IN  [ok |-> ok,
         milli |-> IF ~ok THEN 0
                   ELSE IF signed /\ value[1] = "-" THEN 0 - magnitude ELSE magnitude]

\* get_bootstrap_size_class: the class, or <<>> for None.
get_bootstrap_size_class(value) ==
    LET val == parse_f32(value)
    IN  IF ~val.ok THEN <<>>
        ELSE IF val.milli >= 2500 THEN <<"f", "s", "-", "1">>
        ELSE IF val.milli >= 2000 THEN <<"f", "s", "-", "2">>
        ELSE IF val.milli >= 1750 THEN <<"f", "s", "-", "3">>
        ELSE IF val.milli >= 1500 THEN <<"f", "s", "-", "4">>
        ELSE IF val.milli >= 1250 THEN <<"f", "s", "-", "5">>
        ELSE IF val.milli >= 875 THEN <<"f", "s", "-", "6">>
        ELSE <<>>

\* The SIZE step of parse_cell_content, lines 64-82:
\* ^SIZE\(([^)]+)\):\s*(.*)$
SizeStep(st) ==
    LET r == st.remaining
        close == DecorationCallEnd(r, <<"S", "I", "Z", "E">>, 1)
    IN  IF close = 0 THEN st
        ELSE LET value == SubSeq(r, 6, close - 1)
                 bs_class == get_bootstrap_size_class(value)
                 size_value == IF Contains(value, <<"r", "e", "m">>) \/ Contains(value, <<"e", "m">>)
                                  \/ Contains(value, <<"p", "x">>)
                               THEN value ELSE value \o <<"r", "e", "m">>
             IN  [cell |-> IF bs_class # <<>>
                           THEN [st.cell EXCEPT !.classes = Append(@, bs_class)]
                           ELSE [st.cell EXCEPT
                                   !.styles = Append(@, <<"f", "o", "n", "t", "-", "s", "i", "z", "e", ":", " ">> \o size_value)],
                  remaining |-> TrimStart(SubSeq(r, close + 2, Len(r)))]

\* parse_cell_content
parse_cell_content(cell) ==
    IF cell.content = COLSPAN_MARKER \/ EndsWith(cell.content, COLSPAN_SUFFIX)
    THEN cell
    ELSE IF cell.content = ROWSPAN_MARKER
    THEN cell
    ELSE LET s1 == StripHeaderMarker([cell |-> cell, remaining |-> cell.content])
             s2 == StripAlignPrefixes(SizeStep(ColorStep(s1)), 1)
             s3 == StripHeaderMarker(s2)
         IN  [s3.cell EXCEPT !.content = s3.remaining]

\* One finished cell of the tokenizer: trimmed, built, decorated.
MakeCell(current_cell) == parse_cell_content(Cell_new(Trim(current_cell), FALSE))

\* A mutant of TokenizeFrom: every `|` ends a cell.
RECURSIVE TokenizeFrom_EveryPipe(_, _, _, _)
TokenizeFrom_EveryPipe(chars, current_pos, current_cell, cells) ==
    IF current_pos > Len(chars)
    THEN IF Trim(current_cell) # <<>> \/ cells # <<>>
         THEN Append(cells, MakeCell(current_cell))
         ELSE cells
    ELSE IF chars[current_pos] = "|"
    THEN TokenizeFrom_EveryPipe(chars, current_pos + 1, <<>>,
                                Append(cells, MakeCell(current_cell)))
    ELSE TokenizeFrom_EveryPipe(chars, current_pos + 1,
                                Append(current_cell, chars[current_pos]), cells)

\* The tokenizer loop of parse_table over the characters of one line.
RECURSIVE TokenizeFrom(_, _, _, _)
TokenizeFrom(chars, current_pos, current_cell, cells) ==
    IF current_pos > Len(chars)
    THEN \* add last cell if exists
         IF Trim(current_cell) # <<>> \/ cells # <<>>
         THEN Append(cells, MakeCell(current_cell))
         ELSE cells
    ELSE IF chars[current_pos] = "|"
    THEN IF /\ current_pos + 1 <= Len(chars)
            /\ chars[current_pos + 1] \in {">", "^"}
         THEN \* a span marker stays inside the cell
              TokenizeFrom(chars, current_pos + 2,
                           current_cell \o <<"|", chars[current_pos + 1]>>,
                           cells)
         ELSE \* regular cell separator
              TokenizeFrom(chars, current_pos + 1, <<>>,
                           Append(cells, MakeCell(current_cell)))
    ELSE TokenizeFrom(chars, current_pos + 1,
                      Append(current_cell, chars[current_pos]), cells)

\* The row loop of parse_table: lines that are empty or do not start with
\* `|` are skipped; the first line loses a trailing `h`.
RECURSIVE TokenizeLines(_, _)
TokenizeLines(lines, row_idx) ==
    IF row_idx > Len(lines) THEN <<>>
    ELSE LET trimmed == Trim(lines[row_idx])
             line == IF row_idx = 1 /\ EndsWith(trimmed, <<"h">>)
                     THEN SubSeq(trimmed, 1, Len(trimmed) - 1)
                     ELSE trimmed
         IN  IF trimmed = <<>> \/ ~StartsWith(trimmed, <<"|">>)
             THEN TokenizeLines(lines, row_idx + 1)
             ELSE <<TokenizeFrom(line, 2, <<>>, <<>>)>>
                  \o TokenizeLines(lines, row_idx + 1)

-----------------------------------------------------------------------------
(* is_umd_table, parser.rs *)

\* The closure of the separator test: `|`, `:`, `-` or whitespace.
IsSeparatorChar(c) == c \in {"|", ":", "-"} \/ IsWhitespace(c)

\* is_gfm_separator: the trimmed second line consists of separator characters.
is_gfm_separator(second_line) ==
    \A i \in 1..Len(second_line) : IsSeparatorChar(second_line[i])

\* The substrings whose presence in any line makes a block UMD format.
UMD_MARKERS ==
    { COLSPAN_MARKER, ROWSPAN_MARKER,
      <<"C","O","L","O","R","(">>, <<"S","I","Z","E","(">>,
      <<"T","O","P",":">>, <<"M","I","D","D","L","E",":">>, <<"B","O","T","T","O","M",":">>,
      <<"C","E","N","T","E","R",":">>, <<"R","I","G","H","T",":">>, <<"L","E","F","T",":">> }

\* The marker loop of is_umd_table.
HasUmdMarker(lines) ==
    \E i \in 1..Len(lines) : \E m \in UMD_MARKERS : Contains(lines[i], m)

is_umd_table(lines) ==
    IF lines = <<>> THEN FALSE
    ELSE IF Len(lines) = 1 THEN TRUE
    ELSE IF ~is_gfm_separator(Trim(lines[2])) THEN TRUE
    ELSE HasUmdMarker(lines)

-----------------------------------------------------------------------------
(* process_cell_spanning, cell_spanning.rs *)

\* The test that starts a fold: the content ends with or equals `|>`.
HasColspanMarker(cell) ==
    EndsWith(cell.content, COLSPAN_MARKER) \/ cell.content = COLSPAN_MARKER

\* The content of a marker cell after the marker is removed.
StripColspanMarker(content) == Trim(TrimEndMatches(content, COLSPAN_MARKER))

\* A mutant of IsMergedCell: a following `|>` cell is not folded.
IsMergedCell_EmptyOnly(cell) == cell.content = <<>>

\* The test of the inner loop: the following cell is empty or exactly `|>`.
IsMergedCell(cell) == cell.content = <<>> \/ cell.content = COLSPAN_MARKER

\* A mutant of CountAndRemove: the merged cells are removed, not counted.
RECURSIVE CountAndRemove_NoCount(_, _, _)
CountAndRemove_NoCount(row, j, span) ==
    IF j <= Len(row) /\ IsMergedCell(row[j])
    THEN CountAndRemove_NoCount(RemoveAt(row, j), j, span)
    ELSE [row |-> row, span |-> span]

\* The inner loop of process_colspan: removes the merged cells that follow
\* position i and counts the span.
RECURSIVE CountAndRemove(_, _, _)
CountAndRemove(row, j, span) ==
    IF j <= Len(row) /\ IsMergedCell(row[j])
    THEN CountAndRemove(RemoveAt(row, j), j, span + 1)
    ELSE [row |-> row, span |-> span]

\* The while loop of process_colspan over one row, from index i (1-based).
RECURSIVE process_colspan_row(_, _)
process_colspan_row(row, i) ==
    IF i > Len(row) THEN row
    ELSE IF HasColspanMarker(row[i])
    THEN LET stripped == [row EXCEPT ![i].content = StripColspanMarker(@)]
             f == CountAndRemove(stripped, i + 1, 1)
         IN  process_colspan_row([f.row EXCEPT ![i].colspan = f.span], i + 1)
    ELSE process_colspan_row(row, i + 1)

process_colspan(rs) == [r \in 1..Len(rs) |-> process_colspan_row(rs[r], 1)]

\* The two tests of process_rowspan: the cell at (row_idx, col) is `|^`,
\* and a source cell exists above (indices 1-based).
IsRowspanCell(rs, row_idx, col) ==
    col <= Len(rs[row_idx]) /\ rs[row_idx][col].content = ROWSPAN_MARKER

HasSourceAbove(rs, row_idx, col) ==
    row_idx > 1 /\ col <= Len(rs[row_idx - 1])

\* The loops of process_rowspan: columns outside, rows inside.
RECURSIVE RowspanLoop(_, _, _, _)
RowspanLoop(rs, col, row_idx, max_cols) ==
    IF col > max_cols THEN rs
    ELSE IF row_idx > Len(rs) THEN RowspanLoop(rs, col + 1, 1, max_cols)
    ELSE IF IsRowspanCell(rs, row_idx, col) /\ HasSourceAbove(rs, row_idx, col)
    THEN RowspanLoop([rs EXCEPT ![row_idx - 1][col].rowspan = @ + 1,
                                ![row_idx] = RemoveAt(@, col)],
                     col, row_idx + 1, max_cols)
    ELSE RowspanLoop(rs, col, row_idx + 1, max_cols)

process_rowspan(rs) == RowspanLoop(rs, 1, 1, MaxLen(rs))

process_cell_spanning(rs) == process_rowspan(process_colspan(rs))

-----------------------------------------------------------------------------
(* SpecClassify: is_umd_table on a block of lines. *)

\* The lines a block is made of.
BlockLines ==
    { <<"|"," ","A"," ","|"," ","B"," ","|">>,
      <<"|","-","-","-","|","-","-","-","|">>,
      <<"|"," ","C"," ","|"," ","D"," ","|">>,
      <<"|"," ","A"," ","|",">"," ","|">>,
      <<"|","|","^","|"," ","D"," ","|">>,
      <<"|","C","O","L","O","R","(","r","e","d",")",":"," ","x","|">>,
      <<"|","S","I","Z","E","(","2",")",":"," ","x","|">>,
      <<"|","T","O","P",":"," ","x","|">>,
      <<"|","M","I","D","D","L","E",":"," ","x","|">>,
      <<"|","B","O","T","T","O","M",":"," ","x","|">>,
      <<"|","B","A","S","E","L","I","N","E",":"," ","x","|">>,
      <<"|","L","E","F","T",":"," ","x","|">>,
      <<"|","C","E","N","T","E","R",":"," ","x","|">>,
      <<"|","R","I","G","H","T",":"," ","x","|">>,
      <<"|","J","U","S","T","I","F","Y",":"," ","x","|">> }

ClassifyInit ==
    /\ clines \in UNION { [1..n -> BlockLines] : n \in 0..MaxBlockLines }
    /\ cstage = "input"
    /\ verdict = FALSE
    /\ TableIdle /\ PluginIdle /\ DocIdle

Classify ==
    /\ cstage = "input"
    /\ verdict' = is_umd_table(clines)
    /\ cstage' = "classified"
    /\ UNCHANGED <<clines, tableVars, pluginVars, docVars>>

ClassifyNext == Classify

SpecClassify == ClassifyInit /\ [][ClassifyNext]_vars

-----------------------------------------------------------------------------
(* Claims about the table engine. *)

\* The indices k of 1..n, in increasing order, that satisfy Keep.
RECURSIVE KeptIndices(_, _, _)
KeptIndices(Keep(_), k, n) ==
    IF k > n THEN <<>>
    ELSE (IF Keep(k) THEN <<k>> ELSE <<>>) \o KeptIndices(Keep, k + 1, n)

\* r is c with its trailing marker(s) removed and the rest trimmed.
IsMarkerStripped(r, c) ==
    \E n \in 1..(Len(c) \div 2) :
        /\ \A q \in 1..n :
              SubSeq(c, Len(c) - 2 * q + 1, Len(c) - 2 * q + 2) = COLSPAN_MARKER
        /\ r = Trim(SubSeq(c, 1, Len(c) - 2 * n))

\* A cell that a colspan fold may swallow: empty or exactly `|>`.
Swallowable(cell) == cell.content = <<>> \/ cell.content = COLSPAN_MARKER

\* The cell at j of the tokenized row t is folded into a marker cell: some
\* marker cell i < j is followed by swallowable cells only, up to j.
FoldedAway(t, j) ==
    \E i \in 1..(j - 1) :
        /\ EndsWith(t[i].content, COLSPAN_MARKER)
        /\ \A k \in (i + 1)..j : Swallowable(t[k])

\* The number of cells folded into the cell at j: the swallowable cells
\* that follow it immediately.
FoldCount(t, j) ==
    Cardinality({ k \in (j + 1)..Len(t) : \A q \in (j + 1)..k : Swallowable(t[q]) })

\* Row c is row t with its colspan markers resolved as C5 states.
ColspanResolved(t, c) ==
    LET kept == KeptIndices(LAMBDA j : ~FoldedAway(t, j), 1, Len(t))
    IN  /\ Len(c) = Len(kept)
        /\ \A m \in 1..Len(kept) :
              LET j == kept[m]
              IN  IF EndsWith(t[j].content, COLSPAN_MARKER)
                  THEN /\ IsMarkerStripped(c[m].content, t[j].content)
                       /\ c[m].colspan = 1 + FoldCount(t, j)
                       /\ [c[m] EXCEPT !.content = <<>>, !.colspan = 1]
                            = [t[j] EXCEPT !.content = <<>>, !.colspan = 1]
                  ELSE c[m] = t[j] /\ c[m].colspan = 1

\* C5: after process_colspan every row is its tokenized row with each marker
\* cell stripped, the empty or `|>` cells that follow it immediately deleted,
\* and its colspan 1 + the number of deleted cells; a marker cell with nothing
\* to fold keeps colspan 1, and cells without the marker are unchanged.
ColspanResolution ==
    tstage \in {"colspanned", "spanned", "respanned"} =>
        /\ Len(cols) = Len(tok)
        /\ \A r \in 1..Len(tok) : ColspanResolved(tok[r], cols[r])

\* C5 witness: a marker cell has folded two following cells, and in the same
\* table a marker cell in the last column kept colspan 1.
ColspanResolutionWitness ==
    /\ tstage = "colspanned"
    /\ \E r \in 1..Len(tok) :
          /\ Len(tok[r]) = 3 /\ Len(cols[r]) = 1 /\ cols[r][1].colspan = 3
    /\ \E r \in 1..Len(tok) :
          /\ tok[r] # <<>>
          /\ EndsWith(tok[r][Len(tok[r])].content, COLSPAN_MARKER)
          /\ cols[r][Len(cols[r])].colspan = 1

\* The cell at (r, c) of the colspan-resolved rows cs is a rowspan cell that
\* C4 says is removed.
IsRemoved(cs, r, c) ==
    r >= 2 /\ c <= Len(cs[r]) /\ cs[r][c].content = ROWSPAN_MARKER

\* The row of the nearest non-removed cell above (r, c) in column c; 0 if none.
SourceRow(cs, r, c) ==
    LET above == { q \in 1..(r - 1) : c <= Len(cs[q]) /\ ~IsRemoved(cs, q, c) }
    IN  IF above = {} THEN 0
        ELSE CHOOSE q \in above : \A p \in above : p <= q

\* The rows C4 says process_rowspan leaves, given the colspan-resolved rows.
RowspanResolved(cs) ==
    [r \in 1..Len(cs) |->
        LET kept == KeptIndices(LAMBDA c : ~IsRemoved(cs, r, c), 1, Len(cs[r]))
        IN  [m \in 1..Len(kept) |->
                LET c == kept[m]
                    clients == { q \in (r + 1)..Len(cs) :
                                   IsRemoved(cs, q, c) /\ SourceRow(cs, q, c) = r }
                IN  [cs[r][c] EXCEPT !.rowspan = 1 + Cardinality(clients)]]]

\* Every `|^` cell of a row r >= 1 of cs has a cell above it in its column.
EveryRowspanCellHasSource(cs) ==
    \A r \in 1..Len(cs) : \A c \in 1..Len(cs[r]) :
        IsRemoved(cs, r, c) => SourceRow(cs, r, c) # 0

\* C4: every `|^` cell of a row r >= 1 is removed and the nearest non-removed
\* cell above it in its column gets rowspan + 1; k stacked `|^` cells under a
\* cell give it rowspan k + 1 and change no other cell. Stated for the tables
\* in which every `|^` cell has a cell above it.
RowspanResolution ==
    (tstage \in {"spanned", "respanned"} /\ EveryRowspanCellHasSource(cols))
        => once = RowspanResolved(cols)

\* C6: a second process_cell_spanning on its own result changes nothing.
SpanFoldingIdempotent ==
    tstage = "respanned" => rows = once

\* The set of substrings C10 names: the span markers, COLOR(, SIZE( and every
\* alignment prefix that parse_cell_content accepts.
ClaimedUmdMarkers ==
    { COLSPAN_MARKER, ROWSPAN_MARKER,
      <<"C","O","L","O","R","(">>, <<"S","I","Z","E","(">> }
    \cup { ALIGN_PREFIXES[k].prefix : k \in 1..Len(ALIGN_PREFIXES) }

\* C10: a block is classified UMD iff it has exactly one line, or its
\* trimmed second line is not a separator row, or a line contains one of the
\* claimed markers; the empty block is GFM.
TableFormatClassification ==
    cstage = "classified" =>
        (verdict <=>
            \/ Len(clines) = 1
            \/ Len(clines) >= 2 /\ ~is_gfm_separator(Trim(clines[2]))
            \/ \E i \in 1..Len(clines) :
                  \E m \in ClaimedUmdMarkers : Contains(clines[i], m))

-----------------------------------------------------------------------------
(* Characters and bytes. *)

\* The printable ASCII characters in code order, from U+0020. The grave
\* accent is held by name: no text of the model contains it.
ASCII_PRINTABLE ==
    <<" ", "!", "\"", "#", "$", "%", "&", "'", "(", ")", "*", "+",
      ",", "-", ".", "/", "0", "1", "2", "3", "4", "5", "6", "7",
      "8", "9", ":", ";", "<", "=", ">", "?", "@", "A", "B", "C",
      "D", "E", "F", "G", "H", "I", "J", "K", "L", "M", "N", "O",
      "P", "Q", "R", "S", "T", "U", "V", "W", "X", "Y", "Z", "[",
      "\\", "]", "^", "_", "U+0060", "a", "b", "c", "d", "e", "f", "g",
      "h", "i", "j", "k", "l", "m", "n", "o", "p", "q", "r", "s",
      "t", "u", "v", "w", "x", "y", "z", "{", "|", "}", "~">>

\* The byte of a character (str::as_bytes), for ASCII text.
ByteOf ==
    [c \in {ASCII_PRINTABLE[i] : i \in 1..Len(ASCII_PRINTABLE)} \cup {"\n", "\t"} |->
        IF c = "\n" THEN 10
        ELSE IF c = "\t" THEN 9
        ELSE 31 + (CHOOSE i \in 1..Len(ASCII_PRINTABLE) : ASCII_PRINTABLE[i] = c)]

\* The character of an ASCII byte.
CharOf(b) ==
    IF b = 10 THEN "\n" ELSE IF b = 9 THEN "\t" ELSE ASCII_PRINTABLE[b - 31]

\* A byte that is valid ASCII text on its own (the model's texts are ASCII).
IsTextByte(b) == b = 9 \/ b = 10 \/ (b >= 32 /\ b <= 126)

Letters ==
    {"A","B","C","D","E","F","G","H","I","J","K","L","M",
     "N","O","P","Q","R","S","T","U","V","W","X","Y","Z",
     "a","b","c","d","e","f","g","h","i","j","k","l","m",
     "n","o","p","q","r","s","t","u","v","w","x","y","z"}

Digits == {"0","1","2","3","4","5","6","7","8","9"}

\* The regex class \w.
IsWordChar(c) == c \in Letters \/ c \in Digits \/ c = "_"

-----------------------------------------------------------------------------
(* base64 STANDARD engine: encode, and decode followed by String::from_utf8. *)

BASE64_ALPHABET ==
    <<"A", "B", "C", "D", "E", "F", "G", "H", "I", "J", "K", "L",
      "M", "N", "O", "P", "Q", "R", "S", "T", "U", "V", "W", "X",
      "Y", "Z", "a", "b", "c", "d", "e", "f", "g", "h", "i", "j",
      "k", "l", "m", "n", "o", "p", "q", "r", "s", "t", "u", "v",
      "w", "x", "y", "z", "0", "1", "2", "3", "4", "5", "6", "7",
      "8", "9", "+", "/">>

\* The value of a base64 symbol; -1 for any other character.
SextetOf(c) ==
    IF \E i \in 1..64 : BASE64_ALPHABET[i] = c
    THEN (CHOOSE i \in 1..64 : BASE64_ALPHABET[i] = c) - 1
    ELSE -1

B64(v) == BASE64_ALPHABET[v + 1]

\* general_purpose::STANDARD.encode over the bytes of an ASCII text.
RECURSIVE EncodeBytes(_)
EncodeBytes(bs) ==
    IF bs = <<>> THEN <<>>
    ELSE IF Len(bs) = 1
    THEN <<B64(bs[1] \div 4), B64((bs[1] % 4) * 16), "=", "=">>
    ELSE IF Len(bs) = 2
    THEN <<B64(bs[1] \div 4),
           B64((bs[1] % 4) * 16 + bs[2] \div 16),
           B64((bs[2] % 16) * 4), "=">>
    ELSE <<B64(bs[1] \div 4),
           B64((bs[1] % 4) * 16 + bs[2] \div 16),
           B64((bs[2] % 16) * 4 + bs[3] \div 64),
           B64(bs[3] % 64)>>
         \o EncodeBytes(SubSeq(bs, 4, Len(bs)))

Base64Encode(text) == EncodeBytes([i \in 1..Len(text) |-> ByteOf[text[i]]])

\* The bytes of one 4-symbol group, or <<-1>> if the group is not canonical
\* base64 (a foreign symbol, misplaced padding, non-zero trailing bits).
DecodeGroup(g, last) ==
    LET a == SextetOf(g[1])
        b == SextetOf(g[2])
        c == SextetOf(g[3])
        d == SextetOf(g[4])
    IN  IF a < 0 \/ b < 0 THEN <<-1>>
        ELSE IF g[3] = "=" /\ g[4] = "="
        THEN IF last /\ b % 16 = 0 THEN <<a * 4 + b \div 16>> ELSE <<-1>>
        ELSE IF c < 0 THEN <<-1>>
        ELSE IF g[4] = "="
        THEN IF last /\ c % 4 = 0
             THEN <<a * 4 + b \div 16, (b % 16) * 16 + c \div 4>>
             ELSE <<-1>>
        ELSE IF d < 0 THEN <<-1>>
        ELSE <<a * 4 + b \div 16, (b % 16) * 16 + c \div 4, (c % 4) * 64 + d>>

\* general_purpose::STANDARD.decode: the bytes, or <<-1>> for an Err.
RECURSIVE DecodeBytes(_)
DecodeBytes(enc) ==
    IF enc = <<>> THEN <<>>
    ELSE IF Len(enc) < 4 THEN <<-1>>
    ELSE LET g == DecodeGroup(SubSeq(enc, 1, 4), Len(enc) = 4)
             rest == DecodeBytes(SubSeq(enc, 5, Len(enc)))
         IN  IF g = <<-1>> \/ rest = <<-1>> THEN <<-1>> ELSE g \o rest

\* A restorer with a fallback to the empty string instead of the payload.
DecodeOrRaw_Empty(enc) ==
    LET bs == DecodeBytes(enc)
    IN  IF bs = <<-1>> \/ \E i \in 1..Len(bs) : ~IsTextByte(bs[i])
        THEN <<>>
        ELSE [i \in 1..Len(bs) |-> CharOf(bs[i])]

\* A restorer that hands the payload on as it is, never decoding it.
DecodeOrRaw_Never(enc) == enc

\* decode(..).ok().and_then(String::from_utf8(..).ok()).unwrap_or_else(raw):
\* the decoded text, or the raw payload when the payload is not base64 or
\* its bytes are not text. A byte above 127 does not occur in a payload
\* produced from the model's ASCII texts and is taken as not decodable.
DecodeOrRaw(enc) ==
    LET bs == DecodeBytes(enc)
    IN  IF bs = <<-1>> \/ \E i \in 1..Len(bs) : ~IsTextByte(bs[i])
        THEN enc
        ELSE [i \in 1..Len(bs) |-> CharOf(bs[i])]

-----------------------------------------------------------------------------
(* Regular expressions, as the regex crate matches them. A matcher tells,   *)
(* for a text and an offset, whether its pattern matches at that offset     *)
(* and, if so, where the leftmost-first match ends and what it captured.    *)

NoMatch == [ok |-> FALSE]

\* A match of a pattern tagged kind, ending at offset e.
Captures(kind, e, function, args, content) ==
    [ok |-> TRUE, kind |-> kind, end |-> e,
     function |-> function, args |-> args, content |-> content]

\* Offset of the first occurrence of p in s at or after i; 0 if there is none.
FindFrom(s, p, i) ==
    LET last == Len(s) - Len(p) + 1
    IN  IF \E j \in i..last : IsPrefixAt(s, p, j)
        THEN CHOOSE j \in i..last :
                 IsPrefixAt(s, p, j) /\ \A k \in i..(j - 1) : ~IsPrefixAt(s, p, k)
        ELSE 0

\* Offset of the last character of the longest run of characters of the
\* class Class that starts at i; i - 1 if the run is empty.
RunEnd(Class(_), s, i) ==
    IF i > Len(s) THEN i - 1
    ELSE (CHOOSE j \in i..(Len(s) + 1) :
              /\ j = Len(s) + 1 \/ ~Class(s[j])
              /\ \A k \in i..(j - 1) : Class(s[k])) - 1

\* Offset of the leftmost match of a pattern at or after i; 0 if none.
NextMatch(MatchAt(_, _), s, i) ==
    IF \E j \in i..Len(s) : MatchAt(s, j).ok
    THEN CHOOSE j \in i..Len(s) :
             MatchAt(s, j).ok /\ \A k \in i..(j - 1) : ~MatchAt(s, k).ok
    ELSE 0

\* Regex::replace_all with a closure: the non-overlapping matches from left
\* to right, each replaced by Replacement(match, its 1-based number).
RECURSIVE ReplaceAllFrom(_, _, _, _, _, _)
ReplaceAllFrom(MatchAt(_, _), Replacement(_, _), s, i, out, caps) ==
    LET j == NextMatch(MatchAt, s, i)
    IN  IF j = 0
        THEN [text |-> out \o SubSeq(s, i, Len(s)), caps |-> caps]
        ELSE LET m == MatchAt(s, j)
             IN  ReplaceAllFrom(MatchAt, Replacement, s, m.end + 1,
                     out \o SubSeq(s, i, j - 1) \o Replacement(m, Len(caps) + 1),
                     Append(caps, m))

ReplaceAll(s, MatchAt(_, _), Replacement(_, _)) ==
    ReplaceAllFrom(MatchAt, Replacement, s, 1, <<>>, <<>>)

\* The element of a set of one element: { e : x \in {v} } is e with x bound
\* to the value of v, computed once (`let x = v;`), read from the last
\* binding up.
Only(S) == CHOOSE y \in S : TRUE

\* `result = F(result)`: F applied to the value of v, v computed once.
Rebind(v, F(_)) == CHOOSE y \in { F(x) : x \in {v} } : TRUE

\* One more replace_all pass over the text of r, its captures added to r's.
AndThen(r, MatchAt(_, _), Replacement(_, _)) ==
    Rebind(r, LAMBDA x :
        Rebind(ReplaceAll(x.text, MatchAt, Replacement), LAMBDA n :
            [text |-> n.text, caps |-> x.caps \o n.caps]))

-----------------------------------------------------------------------------
(* plugin_markers.rs *)

\* The kind tags of the plugin markers.
INLINE_PLUGIN == <<"I", "N", "L", "I", "N", "E", "_", "P", "L", "U", "G", "I", "N">>
INLINE_PLUGIN_ARGSONLY == <<"I", "N", "L", "I", "N", "E", "_", "P", "L", "U", "G", "I", "N", "_", "A", "R", "G", "S", "O", "N", "L", "Y">>
INLINE_PLUGIN_NOARGS == <<"I", "N", "L", "I", "N", "E", "_", "P", "L", "U", "G", "I", "N", "_", "N", "O", "A", "R", "G", "S">>
BLOCK_PLUGIN == <<"B", "L", "O", "C", "K", "_", "P", "L", "U", "G", "I", "N">>
BLOCK_PLUGIN_ARGSONLY == <<"B", "L", "O", "C", "K", "_", "P", "L", "U", "G", "I", "N", "_", "A", "R", "G", "S", "O", "N", "L", "Y">>

\* format!("{{{{KIND:{}:KIND}}}}", fields joined by ':')
MarkerOpen(kind) == <<"{", "{">> \o kind \o <<":">>
MarkerClose(kind) == <<":">> \o kind \o <<"}", "}">>
Marker2(kind, f1, f2) == MarkerOpen(kind) \o f1 \o <<":">> \o f2 \o MarkerClose(kind)
Marker3(kind, f1, f2, f3) ==
    MarkerOpen(kind) \o f1 \o <<":">> \o f2 \o <<":">> \o f3 \o MarkerClose(kind)

\* sigil(\w+) at i: the offset of the last character of the name, 0 if the
\* sigil or the name is missing.
NameEnd(s, i, sigil) ==
    IF s[i] # sigil THEN 0
    ELSE LET e == RunEnd(IsWordChar, s, i + 1) IN IF e > i THEN e ELSE 0

\* \(([^)]*)\) at i: the offset of the closing parenthesis, 0 if no match.
ArgsClose(s, i) ==
    IF IsPrefixAt(s, <<"(">>, i) THEN FindFrom(s, <<")">>, i + 1) ELSE 0

\* ((?:[^{}]|\{[^}]*\})*) from p: the offset of the first character the
\* group does not consume. Each step is forced (a character other than a
\* brace, or `{` through the next `}`), so the group has one possible end.
IsBrace(c) == c = "{" \/ c = "}"
NotBrace(c) == ~IsBrace(c)

RECURSIVE BraceContentEnd(_, _)
BraceContentEnd(s, p) ==
    LET b == RunEnd(NotBrace, s, p) + 1
        q == IF b <= Len(s) /\ s[b] = "{" THEN FindFrom(s, <<"}">>, b + 1) ELSE 0
    IN  IF q = 0 THEN b ELSE BraceContentEnd(s, q + 1)

\* \{((?:[^{}]|\{[^}]*\})*)\}; at i, after a call head of the given kind.
BracedContent(s, i, kind, function, args) ==
    IF ~IsPrefixAt(s, <<"{">>, i) THEN NoMatch
    ELSE LET q == BraceContentEnd(s, i + 1)
         IN  IF IsPrefixAt(s, <<"}", ";">>, q)
             THEN Captures(kind, q + 1, function, args, SubSeq(s, i + 1, q - 1))
             ELSE NoMatch

\* &(\w+)\{((?:[^{}]|\{[^}]*\})*)\};
inline_plugin_noargs_content(s, i) ==
    LET e == NameEnd(s, i, "&")
    IN  IF e = 0 THEN NoMatch
        ELSE BracedContent(s, e + 1, INLINE_PLUGIN, SubSeq(s, i + 1, e), <<>>)

\* &(\w+)\(([^)]*)\)\{((?:[^{}]|\{[^}]*\})*)\};
inline_plugin(s, i) ==
    LET e == NameEnd(s, i, "&")
        a == IF e = 0 THEN 0 ELSE ArgsClose(s, e + 1)
    IN  IF a = 0 THEN NoMatch
        ELSE BracedContent(s, a + 1, INLINE_PLUGIN,
                           SubSeq(s, i + 1, e), SubSeq(s, e + 2, a - 1))

\* &(\w+)\(([^)]*)\);
inline_plugin_argsonly(s, i) ==
    LET e == NameEnd(s, i, "&")
        a == IF e = 0 THEN 0 ELSE ArgsClose(s, e + 1)
    IN  IF a # 0 /\ IsPrefixAt(s, <<";">>, a + 1)
        THEN Captures(INLINE_PLUGIN_ARGSONLY, a + 1,
                      SubSeq(s, i + 1, e), SubSeq(s, e + 2, a - 1), <<>>)
        ELSE NoMatch

\* &([a-zA-Z]\w*);
inline_plugin_noargs(s, i) ==
    LET e == NameEnd(s, i, "&")
    IN  IF e # 0 /\ s[i + 1] \in Letters /\ IsPrefixAt(s, <<";">>, e + 1)
        THEN Captures(INLINE_PLUGIN_NOARGS, e + 1, SubSeq(s, i + 1, e), <<>>, <<>>)
        ELSE NoMatch

\* @(\w+)\(([^)]*)\)\{\{([\s\S]*?)\}\}
block_plugin_multi(s, i) ==
    LET e == NameEnd(s, i, "@")
        a == IF e = 0 THEN 0 ELSE ArgsClose(s, e + 1)
        q == IF a # 0 /\ IsPrefixAt(s, <<"{", "{">>, a + 1)
             THEN FindFrom(s, <<"}", "}">>, a + 3) ELSE 0
    IN  IF q = 0 THEN NoMatch
        ELSE Captures(BLOCK_PLUGIN, q + 1, SubSeq(s, i + 1, e),
                      SubSeq(s, e + 2, a - 1), SubSeq(s, a + 3, q - 1))

\* @(\w+)\(([^)]*)\)\{([^}]*)\}
block_plugin_single(s, i) ==
    LET e == NameEnd(s, i, "@")
        a == IF e = 0 THEN 0 ELSE ArgsClose(s, e + 1)
        q == IF a # 0 /\ IsPrefixAt(s, <<"{">>, a + 1)
             THEN FindFrom(s, <<"}">>, a + 2) ELSE 0
    IN  IF q = 0 THEN NoMatch
        ELSE Captures(BLOCK_PLUGIN, q, SubSeq(s, i + 1, e),
                      SubSeq(s, e + 2, a - 1), SubSeq(s, a + 2, q - 1))

\* @(\w+)\(([^)]*)\)
block_plugin_argsonly(s, i) ==
    LET e == NameEnd(s, i, "@")
        a == IF e = 0 THEN 0 ELSE ArgsClose(s, e + 1)
    IN  IF a = 0 THEN NoMatch
        ELSE Captures(BLOCK_PLUGIN_ARGSONLY, a, SubSeq(s, i + 1, e),
                      SubSeq(s, e + 2, a - 1), <<>>)

\* A protector that knows no entity name.
html_entities_None == {}

\* html_entities: the names that are HTML entities, not plugins.
html_entities ==
    { <<"l", "t">>, <<"g", "t">>, <<"a", "m", "p">>, <<"n", "b", "s", "p">>, <<"q", "u", "o", "t">>, <<"a", "p", "o", "s">>, <<"n", "d", "a", "s", "h">>,
      <<"m", "d", "a", "s", "h">>, <<"h", "e", "l", "l", "i", "p">>, <<"c", "o", "p", "y">>, <<"r", "e", "g">>, <<"t", "r", "a", "d", "e">>, <<"t", "i", "m", "e", "s">>,
      <<"d", "i", "v", "i", "d", "e">>, <<"p", "l", "u", "s", "m", "n">>, <<"l", "e">>, <<"g", "e">>, <<"n", "e">>, <<"a", "s", "y", "m", "p">>, <<"e", "q", "u", "i", "v">>,
      <<"f", "o", "r", "a", "l", "l">>, <<"e", "x", "i", "s", "t">>, <<"e", "m", "p", "t", "y">>, <<"n", "a", "b", "l", "a">>, <<"i", "s", "i", "n">>, <<"n", "o", "t", "i", "n">>, <<"n", "i">>,
      <<"p", "r", "o", "d">>, <<"s", "u", "m">>, <<"m", "i", "n", "u", "s">>, <<"l", "o", "w", "a", "s", "t">>, <<"r", "a", "d", "i", "c">>, <<"p", "r", "o", "p">>, <<"i", "n", "f", "i", "n">>,
      <<"a", "n", "g">>, <<"a", "n", "d">>, <<"o", "r">>, <<"c", "a", "p">>, <<"c", "u", "p">>, <<"i", "n", "t">>, <<"t", "h", "e", "r", "e", "4">>, <<"s", "i", "m">>,
      <<"c", "o", "n", "g">>, <<"s", "u", "b">>, <<"s", "u", "p">>, <<"n", "s", "u", "b">>, <<"s", "u", "b", "e">>, <<"s", "u", "p", "e">>, <<"o", "p", "l", "u", "s">>,
      <<"o", "t", "i", "m", "e", "s">>, <<"p", "e", "r", "p">>, <<"s", "d", "o", "t">>, <<"l", "c", "e", "i", "l">>, <<"r", "c", "e", "i", "l">>, <<"l", "f", "l", "o", "o", "r">>,
      <<"r", "f", "l", "o", "o", "r">>, <<"l", "a", "n", "g">>, <<"r", "a", "n", "g">>, <<"l", "o", "z">>, <<"s", "p", "a", "d", "e", "s">>, <<"c", "l", "u", "b", "s">>,
      <<"h", "e", "a", "r", "t", "s">>, <<"d", "i", "a", "m", "s">>, <<"a", "l", "p", "h", "a">>, <<"b", "e", "t", "a">>, <<"g", "a", "m", "m", "a">>, <<"d", "e", "l", "t", "a">>,
      <<"e", "p", "s", "i", "l", "o", "n">>, <<"z", "e", "t", "a">>, <<"e", "t", "a">>, <<"t", "h", "e", "t", "a">>, <<"i", "o", "t", "a">>, <<"k", "a", "p", "p", "a">>,
      <<"l", "a", "m", "b", "d", "a">>, <<"m", "u">>, <<"n", "u">>, <<"x", "i">>, <<"o", "m", "i", "c", "r", "o", "n">>, <<"p", "i">>, <<"r", "h", "o">>,
      <<"s", "i", "g", "m", "a">>, <<"t", "a", "u">>, <<"u", "p", "s", "i", "l", "o", "n">>, <<"p", "h", "i">>, <<"c", "h", "i">>, <<"p", "s", "i">>, <<"o", "m", "e", "g", "a">>,
      <<"I", "u", "m", "l">>, <<"i", "u", "m", "l">>, <<"U", "u", "m", "l">>, <<"u", "u", "m", "l">>, <<"A", "u", "m", "l">>, <<"a", "u", "m", "l">>, <<"O", "u", "m", "l">>,
      <<"o", "u", "m", "l">>, <<"E", "u", "m", "l">>, <<"e", "u", "m", "l">>, <<"A", "r", "i", "n", "g">>, <<"a", "r", "i", "n", "g">>, <<"A", "E", "l", "i", "g">>, <<"a", "e", "l", "i", "g">>,
      <<"C", "c", "e", "d", "i", "l">>, <<"c", "c", "e", "d", "i", "l">>, <<"E", "t", "h">>, <<"e", "t", "h">>, <<"N", "t", "i", "l", "d", "e">>, <<"n", "t", "i", "l", "d", "e">>,
      <<"O", "s", "l", "a", "s", "h">>, <<"o", "s", "l", "a", "s", "h">>, <<"T", "h", "o", "r", "n">>, <<"t", "h", "o", "r", "n">>, <<"s", "z", "l", "i", "g">>, <<"y", "u", "m", "l">>,
      <<"A", "g", "r", "a", "v", "e">>, <<"a", "g", "r", "a", "v", "e">>, <<"A", "a", "c", "u", "t", "e">>, <<"a", "a", "c", "u", "t", "e">>, <<"A", "c", "i", "r", "c">>, <<"a", "c", "i", "r", "c">>,
      <<"A", "t", "i", "l", "d", "e">>, <<"a", "t", "i", "l", "d", "e">>, <<"E", "g", "r", "a", "v", "e">>, <<"e", "g", "r", "a", "v", "e">>, <<"E", "a", "c", "u", "t", "e">>, <<"e", "a", "c", "u", "t", "e">>,
      <<"E", "c", "i", "r", "c">>, <<"e", "c", "i", "r", "c">>, <<"I", "g", "r", "a", "v", "e">>, <<"i", "g", "r", "a", "v", "e">>, <<"I", "a", "c", "u", "t", "e">>, <<"i", "a", "c", "u", "t", "e">>,
      <<"I", "c", "i", "r", "c">>, <<"i", "c", "i", "r", "c">>, <<"O", "g", "r", "a", "v", "e">>, <<"o", "g", "r", "a", "v", "e">>, <<"O", "a", "c", "u", "t", "e">>, <<"o", "a", "c", "u", "t", "e">>,
      <<"O", "c", "i", "r", "c">>, <<"o", "c", "i", "r", "c">>, <<"O", "t", "i", "l", "d", "e">>, <<"o", "t", "i", "l", "d", "e">>, <<"U", "g", "r", "a", "v", "e">>, <<"u", "g", "r", "a", "v", "e">>,
      <<"U", "a", "c", "u", "t", "e">>, <<"u", "a", "c", "u", "t", "e">>, <<"U", "c", "i", "r", "c">>, <<"u", "c", "i", "r", "c">>, <<"Y", "a", "c", "u", "t", "e">>, <<"y", "a", "c", "u", "t", "e">>,
      <<"c", "e", "n", "t">>, <<"p", "o", "u", "n", "d">>, <<"c", "u", "r", "r", "e", "n">>, <<"y", "e", "n">>, <<"b", "r", "v", "b", "a", "r">>, <<"s", "e", "c", "t">>, <<"u", "m", "l">>,
      <<"o", "r", "d", "f">>, <<"l", "a", "q", "u", "o">>, <<"n", "o", "t">>, <<"s", "h", "y">>, <<"m", "a", "c", "r">>, <<"d", "e", "g">>, <<"s", "u", "p", "2">>,
      <<"s", "u", "p", "3">>, <<"a", "c", "u", "t", "e">>, <<"m", "i", "c", "r", "o">>, <<"p", "a", "r", "a">>, <<"m", "i", "d", "d", "o", "t">>, <<"c", "e", "d", "i", "l">>, <<"s", "u", "p", "1">>,
      <<"o", "r", "d", "m">>, <<"r", "a", "q", "u", "o">>, <<"f", "r", "a", "c", "1", "4">>, <<"f", "r", "a", "c", "1", "2">>, <<"f", "r", "a", "c", "3", "4">>, <<"i", "q", "u", "e", "s", "t">>,
      <<"e", "n", "s", "p">>, <<"e", "m", "s", "p">>, <<"t", "h", "i", "n", "s", "p">>, <<"z", "w", "n", "j">>, <<"z", "w", "j">>, <<"l", "r", "m">>, <<"r", "l", "m">> }

\* The closures of protect_inline_plugins, lines 50-58, 64-73, 79-86, 95-107.
InlineContentMarker(m, n) ==
    Marker3(INLINE_PLUGIN, m.function, m.args, Base64Encode(m.content))

InlineArgsOnlyMarker(m, n) == Marker2(INLINE_PLUGIN_ARGSONLY, m.function, m.args)

InlineNoArgsMarker(m, n) ==
    IF m.function \in html_entities
    THEN <<"&">> \o m.function \o <<";">>
    ELSE MarkerOpen(INLINE_PLUGIN_NOARGS) \o m.function
             \o MarkerClose(INLINE_PLUGIN_NOARGS)

\* protect_inline_plugins, continued from a text and the captures so far.
protect_inline_plugins(r) ==
    AndThen(AndThen(AndThen(AndThen(r,
        inline_plugin_noargs_content, InlineContentMarker),
        inline_plugin, InlineContentMarker),
        inline_plugin_argsonly, InlineArgsOnlyMarker),
        inline_plugin_noargs, InlineNoArgsMarker)

\* The closures of protect_block_plugins, lines 125-134, 140-149, 155-163.
BlockContentMarker(m, n) ==
    Marker3(BLOCK_PLUGIN, m.function, m.args, Base64Encode(m.content))

BlockArgsOnlyMarker(m, n) ==
    Marker2(BLOCK_PLUGIN_ARGSONLY, m.function, Base64Encode(m.args))

\* protect_block_plugins, continued from a text and the captures so far.
protect_block_plugins(r) ==
    AndThen(AndThen(AndThen(r,
        block_plugin_multi, BlockContentMarker),
        block_plugin_single, BlockContentMarker),
        block_plugin_argsonly, BlockArgsOnlyMarker)

-----------------------------------------------------------------------------
(* conflict_resolver.rs: the restoration of plugin markers *)

\* str::replace, one character by a text.
RECURSIVE ReplaceChar(_, _, _)
ReplaceChar(s, c, by) ==
    IF s = <<>> THEN <<>>
    ELSE (IF Head(s) = c THEN by ELSE <<Head(s)>>) \o ReplaceChar(Tail(s), c, by)

\* escape_html_text
escape_html_text(input) ==
    ReplaceChar(ReplaceChar(ReplaceChar(input, "&", <<"&", "a", "m", "p", ";">>), "<", <<"&", "l", "t", ";">>),
                ">", <<"&", "g", "t", ";">>)

\* str::split(','), each piece trimmed
RECURSIVE SplitTrim(_, _)
SplitTrim(s, piece) ==
    IF s = <<>> THEN <<Trim(piece)>>
    ELSE IF Head(s) = "," THEN <<Trim(piece)>> \o SplitTrim(Tail(s), <<>>)
    ELSE SplitTrim(Tail(s), Append(piece, Head(s)))

\* parse_args
parse_args(args) == IF Trim(args) = <<>> THEN <<>> ELSE SplitTrim(args, <<>>)

\* usize Display
RECURSIVE Decimal(_)
Decimal(n) ==
    IF n < 10 THEN <<ASCII_PRINTABLE[17 + n]>>
    ELSE Decimal(n \div 10) \o <<ASCII_PRINTABLE[17 + (n % 10)]>>

\* render_args_as_data
render_args_as_data(args) ==
    LET parsed == parse_args(args)
    IN  Flatten([i \in 1..Len(parsed) |->
            <<"<", "d", "a", "t", "a", " ", "v", "a", "l", "u", "e", "=", "\"">> \o Decimal(i - 1) \o <<"\"", ">">>
                \o escape_html_text(parsed[i]) \o <<"<", "/", "d", "a", "t", "a", ">">>])

\* The inline decoration functions that wrap the content in a tag of
\* their own name.
SIMPLE_WRAPPERS ==
    { <<"d", "f", "n">>, <<"k", "b", "d">>, <<"s", "a", "m", "p">>, <<"v", "a", "r">>, <<"c", "i", "t", "e">>, <<"q">>, <<"s", "m", "a", "l", "l">>, <<"u">>, <<"b", "d", "i">> }

\* convert_inline_decoration_to_html: the HTML, or <<>> for None. The
\* functions badge, color and size are not among the model's function names.
convert_inline_decoration_to_html(function, args, content) ==
    IF function \in SIMPLE_WRAPPERS
    THEN <<"<">> \o function \o <<">">> \o content \o <<"<", "/">> \o function \o <<">">>
    ELSE IF function = <<"r", "u", "b", "y">>
    THEN <<"<", "r", "u", "b", "y", ">">> \o content \o <<"<", "r", "p", ">", "(", "<", "/", "r", "p", ">", "<", "r", "t", ">">> \o args \o <<"<", "/", "r", "t", ">", "<", "r", "p", ">", ")", "<", "/", "r", "p", ">", "<", "/", "r", "u", "b", "y", ">">>
    ELSE IF function = <<"t", "i", "m", "e">>
    THEN <<"<", "t", "i", "m", "e", " ", "d", "a", "t", "e", "t", "i", "m", "e", "=", "\"">> \o args \o <<"\"", ">">> \o content \o <<"<", "/", "t", "i", "m", "e", ">">>
    ELSE IF function = <<"d", "a", "t", "a">>
    THEN <<"<", "d", "a", "t", "a", " ", "v", "a", "l", "u", "e", "=", "\"">> \o args \o <<"\"", ">">> \o content \o <<"<", "/", "d", "a", "t", "a", ">">>
    ELSE IF function = <<"b", "d", "o">>
    THEN <<"<", "b", "d", "o", " ", "d", "i", "r", "=", "\"">> \o args \o <<"\"", ">">> \o content \o <<"<", "/", "b", "d", "o", ">">>
    ELSE IF function = <<"l", "a", "n", "g">>
    THEN <<"<", "s", "p", "a", "n", " ", "l", "a", "n", "g", "=", "\"">> \o args \o <<"\"", ">">> \o content \o <<"<", "/", "s", "p", "a", "n", ">">>
    ELSE IF function = <<"a", "b", "b", "r">>
    THEN <<"<", "a", "b", "b", "r", " ", "t", "i", "t", "l", "e", "=", "\"">> \o content \o <<"\"", ">">> \o args \o <<"<", "/", "a", "b", "b", "r", ">">>
    ELSE IF function \in {<<"s", "u", "p">>, <<"s", "u", "b">>}
    THEN <<"<">> \o function \o <<">">> \o args \o <<"<", "/">> \o function \o <<">">>
    ELSE <<>>

\* convert_inline_decoration_argsonly_to_html
convert_inline_decoration_argsonly_to_html(function, args) ==
    IF function \in {<<"s", "u", "p">>, <<"s", "u", "b">>}
    THEN <<"<">> \o function \o <<">">> \o args \o <<"<", "/">> \o function \o <<">">>
    ELSE <<>>

\* convert_inline_decoration_noargs_to_html
convert_inline_decoration_noargs_to_html(function) ==
    IF function = <<"w", "b", "r">> THEN <<"<", "w", "b", "r", " ", "/", ">">>
    ELSE IF function = <<"b", "r">> THEN <<"<", "b", "r", " ", "/", ">">>
    ELSE <<>>

\* format!("<template class=\"umd-plugin umd-plugin-{}\">{}{}</template>", ..)
PluginTemplate(function, inner) ==
    <<"<", "t", "e", "m", "p", "l", "a", "t", "e", " ", "c", "l", "a", "s", "s", "=", "\"", "u", "m", "d", "-", "p", "l", "u", "g", "i", "n", " ", "u", "m", "d", "-", "p", "l", "u", "g", "i", "n", "-">> \o function \o <<"\"", ">">>
        \o inner \o <<"<", "/", "t", "e", "m", "p", "l", "a", "t", "e", ">">>

\* \{\{KIND:(\w+):([\s\S]*?):([\s\S]*?):KIND\}\} at i. The two lazy groups
\* leave one match: args end at the first colon after the name, the payload
\* ends at the first closing delimiter after that colon. The payload is
\* decoded as the closure decodes it.
ContentMarkerAt(s, i, kind) ==
    IF s[i] # "{" \/ ~IsPrefixAt(s, MarkerOpen(kind), i) THEN NoMatch
    ELSE LET b == i + Len(MarkerOpen(kind))
             e == RunEnd(IsWordChar, s, b)
             k == IF e >= b /\ IsPrefixAt(s, <<":">>, e + 1)
                  THEN FindFrom(s, <<":">>, e + 2) ELSE 0
             t == IF k = 0 THEN 0 ELSE FindFrom(s, MarkerClose(kind), k + 1)
         IN  IF t = 0 THEN NoMatch
             ELSE Captures(kind, t + Len(MarkerClose(kind)) - 1,
                           SubSeq(s, b, e), SubSeq(s, e + 2, k - 1),
                           DecodeOrRaw(SubSeq(s, k + 1, t - 1)))

\* \{\{KIND:(\w+):([\s\S]*?):KIND\}\} at i
ArgsMarkerAt(s, i, kind) ==
    IF s[i] # "{" \/ ~IsPrefixAt(s, MarkerOpen(kind), i) THEN NoMatch
    ELSE LET b == i + Len(MarkerOpen(kind))
             e == RunEnd(IsWordChar, s, b)
             t == IF e >= b /\ IsPrefixAt(s, <<":">>, e + 1)
                  THEN FindFrom(s, MarkerClose(kind), e + 2) ELSE 0
         IN  IF t = 0 THEN NoMatch
             ELSE Captures(kind, t + Len(MarkerClose(kind)) - 1,
                           SubSeq(s, b, e), SubSeq(s, e + 2, t - 1), <<>>)

\* \{\{INLINE_PLUGIN_NOARGS:(\w+):INLINE_PLUGIN_NOARGS\}\} at i
inline_plugin_noargs_marker(s, i) ==
    IF s[i] # "{" \/ ~IsPrefixAt(s, MarkerOpen(INLINE_PLUGIN_NOARGS), i) THEN NoMatch
    ELSE LET b == i + Len(MarkerOpen(INLINE_PLUGIN_NOARGS))
             e == RunEnd(IsWordChar, s, b)
         IN  IF e >= b /\ IsPrefixAt(s, MarkerClose(INLINE_PLUGIN_NOARGS), e + 1)
             THEN Captures(INLINE_PLUGIN_NOARGS,
                           e + Len(MarkerClose(INLINE_PLUGIN_NOARGS)),
                           SubSeq(s, b, e), <<>>, <<>>)
             ELSE NoMatch

inline_plugin_marker(s, i) == ContentMarkerAt(s, i, INLINE_PLUGIN)
inline_plugin_argsonly_marker(s, i) == ArgsMarkerAt(s, i, INLINE_PLUGIN_ARGSONLY)
block_plugin_marker(s, i) == ContentMarkerAt(s, i, BLOCK_PLUGIN)

\* The block args-only marker, its args decoded as the closure decodes them.
block_plugin_argsonly_marker(s, i) ==
    LET m == ArgsMarkerAt(s, i, BLOCK_PLUGIN_ARGSONLY)
    IN  IF m.ok THEN [m EXCEPT !.args = DecodeOrRaw(m.args)] ELSE m

\* The closures of the plugin restoration, lines 616-650, 658-673, 680-693,
\* 700-727, 735-756.
InlineContentHtml(m, n) ==
    LET html == convert_inline_decoration_to_html(m.function, m.args, m.content)
    IN  IF html # <<>> THEN html
        ELSE PluginTemplate(m.function,
                 render_args_as_data(m.args) \o escape_html_text(m.content))

InlineArgsOnlyHtml(m, n) ==
    LET html == convert_inline_decoration_argsonly_to_html(m.function, m.args)
    IN  IF html # <<>> THEN html
        ELSE PluginTemplate(m.function, render_args_as_data(m.args))

InlineNoArgsHtml(m, n) ==
    LET html == convert_inline_decoration_noargs_to_html(m.function)
    IN  IF html # <<>> THEN html ELSE PluginTemplate(m.function, <<>>)

BlockContentHtml(m, n) ==
    PluginTemplate(m.function,
        render_args_as_data(m.args) \o escape_html_text(m.content))

BlockArgsOnlyHtml(m, n) ==
    IF m.function = <<"c", "l", "e", "a", "r">> /\ Trim(m.args) = <<>>
    THEN <<"<", "d", "i", "v", " ", "c", "l", "a", "s", "s", "=", "\"", "c", "l", "e", "a", "r", "f", "i", "x", "\"", ">", "<", "/", "d", "i", "v", ">">>
    ELSE PluginTemplate(m.function, render_args_as_data(m.args))

\* postprocess_conflicts, lines 613-757: the five restoration passes,
\* continued from a text and the captures so far.
restore_plugins(r) ==
    AndThen(AndThen(AndThen(AndThen(AndThen(r,
        inline_plugin_marker, InlineContentHtml),
        inline_plugin_argsonly_marker, InlineArgsOnlyHtml),
        inline_plugin_noargs_marker, InlineNoArgsHtml),
        block_plugin_marker, BlockContentHtml),
        block_plugin_argsonly_marker, BlockArgsOnlyHtml)

-----------------------------------------------------------------------------
(* SpecPlugin: one plugin call is protected by protect_inline_plugins and   *)
(* protect_block_plugins, in the order preprocess_conflicts calls them,     *)
(* and the text is then handed to the plugin restoration.                   *)

\* The longest content written over the content alphabet.
MaxContentLen == 3

ContentAlphabet == {"c", ":", "{", "}"}

PlainContents == UNION { [1..n -> ContentAlphabet] : n \in 0..MaxContentLen }

\* Contents that hold one inline plugin call, in each inline form.
NestedInlineContents ==
    { <<"t", "e", "x", "t", " ", "&", "i", "n", "n", "e", "r", "(", "b", ")", "{", "x", "}", ";", " ", "m", "o", "r", "e">>, <<"t", "e", "x", "t", " ", "&", "i", "n", "n", "e", "r", "{", "x", "}", ";", " ", "m", "o", "r", "e">>,
      <<"t", "e", "x", "t", " ", "&", "i", "n", "n", "e", "r", "(", "b", ")", ";", " ", "m", "o", "r", "e">>, <<"t", "e", "x", "t", " ", "&", "i", "n", "n", "e", "r", ";", " ", "m", "o", "r", "e">> }

\* Contents that look like a marker delimiter or like a whole marker.
MarkerLikeContents ==
    { <<":", "I", "N", "L", "I", "N", "E", "_", "P", "L", "U", "G", "I", "N", "}", "}">>, <<"{", "{", "I", "N", "L", "I", "N", "E", "_", "P", "L", "U", "G", "I", "N", ":", "g", ":", ":", "e", "A", "=", "=", ":", "I", "N", "L", "I", "N", "E", "_", "P", "L", "U", "G", "I", "N", "}", "}">>,
      <<"{", "{", "B", "L", "O", "C", "K", "_", "P", "L", "U", "G", "I", "N", ":", "g", ":", "a", ":", "e", "A", "=", "=", ":", "B", "L", "O", "C", "K", "_", "P", "L", "U", "G", "I", "N", "}", "}">> }

Contents == PlainContents \cup NestedInlineContents \cup MarkerLikeContents

Functions == { <<"f">>, <<"t", "i", "m", "e">> }

ArgTexts == { <<>>, <<"a">>, <<"a", ",", "b">>, <<"k", "=", "v">>, <<"1", ":", "2">> }

Call(form, function, args, content) ==
    [form |-> form, function |-> function, args |-> args, content |-> content]

PluginCalls ==
    { Call("inline_content", f, <<>>, c) : f \in Functions, c \in Contents }
    \cup { Call(fm, f, a, c) : fm \in {"inline", "block_single", "block_multi"},
                               f \in Functions, a \in ArgTexts, c \in Contents }
    \cup { Call(fm, f, a, <<>>) : fm \in {"inline_argsonly", "block_argsonly"},
                                  f \in Functions, a \in ArgTexts }
    \cup { Call("inline_noargs", f, <<>>, <<>>) : f \in Functions \cup {<<"a", "m", "p">>} }

\* The call as it is written in a document.
CallText(call) ==
    LET f == call.function
        a == <<"(">> \o call.args \o <<")">>
        c == call.content
    IN  CASE call.form = "inline_content"  -> <<"&">> \o f \o <<"{">> \o c \o <<"}", ";">>
          [] call.form = "inline"          -> <<"&">> \o f \o a \o <<"{">> \o c \o <<"}", ";">>
          [] call.form = "inline_argsonly" -> <<"&">> \o f \o a \o <<";">>
          [] call.form = "inline_noargs"   -> <<"&">> \o f \o <<";">>
          [] call.form = "block_multi"     -> <<"@">> \o f \o a \o <<"{", "{">> \o c \o <<"}", "}">>
          [] call.form = "block_single"    -> <<"@">> \o f \o a \o <<"{">> \o c \o <<"}">>
          [] call.form = "block_argsonly"  -> <<"@">> \o f \o a

PluginInit ==
    /\ pcall \in PluginCalls
    /\ ptext = CallText(pcall)
    /\ pstage = "input"
    /\ pmarked = <<>> /\ captured = <<>> /\ restored = <<>>
    /\ TableIdle /\ ClassifyIdle /\ DocIdle

\* preprocess_conflicts, line 253: protect_inline_plugins
ProtectInline ==
    /\ pstage = "input"
    /\ LET r == protect_inline_plugins([text |-> ptext, caps |-> <<>>])
       IN  ptext' = r.text /\ captured' = r.caps
    /\ pstage' = "inline_protected"
    /\ UNCHANGED <<pcall, pmarked, restored, tableVars, classifyVars, docVars>>

\* preprocess_conflicts, line 254: protect_block_plugins
ProtectBlock ==
    /\ pstage = "inline_protected"
    /\ LET r == protect_block_plugins([text |-> ptext, caps |-> captured])
       IN  ptext' = r.text /\ captured' = r.caps /\ pmarked' = r.text
    /\ pstage' = "protected"
    /\ UNCHANGED <<pcall, restored, tableVars, classifyVars, docVars>>

\* postprocess_conflicts, lines 613-757: the plugin restoration
RestorePlugins ==
    /\ pstage = "protected"
    /\ LET r == restore_plugins([text |-> ptext, caps |-> <<>>])
       IN  ptext' = r.text /\ restored' = r.caps
    /\ pstage' = "restored"
    /\ UNCHANGED <<pcall, pmarked, captured, tableVars, classifyVars, docVars>>

PluginNext == ProtectInline \/ ProtectBlock \/ RestorePlugins

SpecPlugin == PluginInit /\ [][PluginNext]_vars

-----------------------------------------------------------------------------
(* Claims about the plugin markers. *)

\* A capture of a call that carries content.
IsContentBearing(m) == m.kind \in {INLINE_PLUGIN, BLOCK_PLUGIN}

HasColon(a) == \E i \in 1..Len(a) : a[i] = ":"

\* The marker the protector writes for the capture m.
MarkerOf(m) ==
    IF m.kind = INLINE_PLUGIN THEN InlineContentMarker(m, 1)
    ELSE BlockContentMarker(m, 1)

\* What the restorer captures from the marker of m.
RestoredFrom(m) == restore_plugins([text |-> MarkerOf(m), caps |-> <<>>]).caps

\* The protectors turned the whole text into the marker of one capture.
WhollyProtected ==
    /\ Len(captured) = 1
    /\ IsContentBearing(captured[1])
    /\ pmarked = MarkerOf(captured[1])

\* C1. Marker content round-trip: for every content-bearing call the
\* protectors captured whose args hold no colon, restoring the marker
\* written for it yields one capture of the same kind whose content equals
\* the captured content; and when the whole text became that marker, the
\* restoration of the text recovers exactly that content.
MarkerContentRoundTrip ==
    /\ pstage \in {"protected", "restored"} =>
          \A i \in 1..Len(captured) :
              (IsContentBearing(captured[i]) /\ ~HasColon(captured[i].args)) =>
                  LET r == RestoredFrom(captured[i])
                  IN  /\ Len(r) = 1
                      /\ r[1].kind = captured[i].kind
                      /\ r[1].content = captured[i].content
    /\ (pstage = "restored" /\ WhollyProtected /\ ~HasColon(captured[1].args)) =>
          /\ Len(restored) = 1
          /\ restored[1].kind = captured[1].kind
          /\ restored[1].content = captured[1].content

\* An inline call with args whose content holds a colon and a brace pair
\* was captured whole, and the restorer recovered that content.
MarkerContentRoundTripWitness ==
    /\ pstage = "restored"
    /\ pcall.form = "inline"
    /\ pcall.args = <<"a", ",", "b">>
    /\ WhollyProtected
    /\ captured[1].content = <<"{", ":", "}">>
    /\ Len(restored) = 1
    /\ restored[1].content = <<"{", ":", "}">>

\* C9. Args round-trip: for every content-bearing call the protectors
\* captured, whatever its args, restoring the marker written for it yields
\* one capture with the captured function name and the captured args.
ArgsRoundTrip ==
    pstage \in {"protected", "restored"} =>
        \A i \in 1..Len(captured) :
            IsContentBearing(captured[i]) =>
                LET r == RestoredFrom(captured[i])
                IN  /\ Len(r) = 1
                    /\ r[1].function = captured[i].function
                    /\ r[1].args = captured[i].args

\* The text is exactly one content marker of the given kind that decodes
\* to the fields of the call as written.
IsMarkerOfCall(text, MarkerAt(_, _), call) ==
    LET m == MarkerAt(text, 1)
    IN  /\ text # <<>>
        /\ m.ok
        /\ m.end = Len(text)
        /\ m.function = call.function
        /\ m.args = call.args
        /\ m.content = call.content

\* C8. Nested content preservation: an inline call (args without colon)
\* whose content holds one nested inline call, in any inline form, is
\* turned by protect_inline_plugins into a single marker whose decoded
\* content is the content as written.
NestedContentPreservation ==
    ( /\ pstage = "inline_protected"
      /\ pcall.form \in {"inline", "inline_content"}
      /\ pcall.content \in NestedInlineContents
      /\ ~HasColon(pcall.args) )
        => IsMarkerOfCall(ptext, inline_plugin_marker, pcall)

\* C7. Lossless nested round-trip in block plugins: a multi-line block call
\* (args without colon) whose content holds an inline plugin call is
\* protected as exactly one block marker whose decoded content is the
\* content as written, nothing of the call being left outside the marker.
NestedBlockRoundTrip ==
    ( /\ pstage = "protected"
      /\ pcall.form = "block_multi"
      /\ pcall.content \in NestedInlineContents
      /\ ~HasColon(pcall.args) )
        => IsMarkerOfCall(ptext, block_plugin_marker, pcall)

-----------------------------------------------------------------------------
(* parse_table and its HTML, parser.rs *)

\* [String]::join(sep)
RECURSIVE Join(_, _)
Join(ss, sep) ==
    IF ss = <<>> THEN <<>>
    ELSE IF Len(ss) = 1 THEN ss[1]
    ELSE ss[1] \o sep \o Join(Tail(ss), sep)

\* str::lines: the pieces between the newlines, without a last empty piece.
str_lines(text) ==
    LET pieces == Split(text, "\n")
    IN  IF pieces[Len(pieces)] = <<>> THEN SubSeq(pieces, 1, Len(pieces) - 1)
        ELSE pieces

\* The attributes of a cell, lines 198-214 and 240-256.
CellAttrs(cell) ==
    (IF cell.classes # <<>>
     THEN <<<<"c", "l", "a", "s", "s", "=", "\"">> \o Join(cell.classes, <<" ">>) \o <<"\"">>>> ELSE <<>>)
    \o (IF cell.styles # <<>>
        THEN <<<<"s", "t", "y", "l", "e", "=", "\"">> \o Join(cell.styles, <<";", " ">>) \o <<"\"">>>> ELSE <<>>)
    \o (IF cell.colspan > 1
        THEN <<<<"c", "o", "l", "s", "p", "a", "n", "=", "\"">> \o Decimal(cell.colspan) \o <<"\"">>>> ELSE <<>>)
    \o (IF cell.rowspan > 1
        THEN <<<<"r", "o", "w", "s", "p", "a", "n", "=", "\"">> \o Decimal(cell.rowspan) \o <<"\"">>>> ELSE <<>>)

\* One cell: <tag attrs>content</tag>, lines 195-222 and 237-264.
CellHtml(cell) ==
    LET tag == IF cell.is_header THEN <<"t", "h">> ELSE <<"t", "d">>
        attrs == CellAttrs(cell)
        attrs_str == IF attrs = <<>> THEN <<>> ELSE <<" ">> \o Join(attrs, <<" ">>)
    IN  <<"<">> \o tag \o attrs_str \o <<">">> \o cell.content \o <<"<", "/">> \o tag \o <<">">>

\* One row: <tr>, its cells, </tr>.
RowHtml(row) ==
    <<"<", "t", "r", ">">> \o Flatten([c \in 1..Len(row) |-> CellHtml(row[c])]) \o <<"<", "/", "t", "r", ">">>

RowsHtml(rs) == Flatten([r \in 1..Len(rs) |-> RowHtml(rs[r])])

generate_table_html_with_header(rs, has_thead) ==
    LET body_rows == IF has_thead THEN Tail(rs) ELSE rs
    IN  IF rs = <<>> THEN <<"<", "t", "a", "b", "l", "e", " ", "c", "l", "a", "s", "s", "=", "\"", "t", "a", "b", "l", "e", " ", "u", "m", "d", "-", "t", "a", "b", "l", "e", "\"", ">">> \o <<"<", "/", "t", "a", "b", "l", "e", ">">>
        ELSE <<"<", "t", "a", "b", "l", "e", " ", "c", "l", "a", "s", "s", "=", "\"", "t", "a", "b", "l", "e", " ", "u", "m", "d", "-", "t", "a", "b", "l", "e", "\"", ">">>
             \o (IF has_thead THEN <<"<", "t", "h", "e", "a", "d", ">">> \o RowHtml(rs[1]) \o <<"<", "/", "t", "h", "e", "a", "d", ">">> ELSE <<>>)
             \o (IF body_rows # <<>>
                 THEN <<"<", "t", "b", "o", "d", "y", ">">> \o RowsHtml(body_rows) \o <<"<", "/", "t", "b", "o", "d", "y", ">">> ELSE <<>>)
             \o <<"<", "/", "t", "a", "b", "l", "e", ">">>

\* has_thead, lines 108-110: the first line, trimmed, ends with `h`.
HasThead(lines) == lines # <<>> /\ EndsWith(Trim(lines[1]), <<"h">>)

\* parse_table
parse_table(table_text) ==
    LET lines == str_lines(table_text)
    IN  IF lines = <<>> THEN <<>>
        ELSE IF ~is_umd_table(lines) THEN table_text
        ELSE generate_table_html_with_header(
                 process_cell_spanning(TokenizeLines(lines, 1)), HasThead(lines))

-----------------------------------------------------------------------------
(* The tables handed to parse_table. *)

\* The cell texts a line is written from: plain text, an empty cell, a
\* rowspan cell, text with a colspan marker, a bare colspan marker, text
\* with a repeated colspan marker.
CellTexts ==
    { <<" ","A"," ">>, <<>>, ROWSPAN_MARKER, <<" ","A"," ","|",">">>, COLSPAN_MARKER,
      <<" ","A"," ","|",">"," ","|",">">> }

\* A line `|c1|c2|...|cn`. A line written with a closing `|` is the line
\* whose last cell text is empty.
RECURSIVE JoinCells(_)
JoinCells(cells) ==
    IF cells = <<>> THEN <<>> ELSE <<"|">> \o Head(cells) \o JoinCells(Tail(cells))

\* The tables of at most n written cells, every line holding at least one.
RECURSIVE TablesOf(_)
TablesOf(n) ==
    {<<>>} \cup
    UNION { { <<JoinCells(r)>> \o t : r \in [1..k -> CellTexts],
                                      t \in TablesOf(n - k) } : k \in 1..n }

-----------------------------------------------------------------------------
(* SpecTable: parse_table step by step, and a second                        *)
(* process_cell_spanning on the resolved rows.                              *)

TableInit ==
    /\ tlines \in TablesOf(MaxCells)
    /\ tstage = "input"
    /\ tok = <<>> /\ cols = <<>> /\ once = <<>> /\ rows = <<>> /\ thtml = <<>>
    /\ loop = <<>>
    /\ ClassifyIdle /\ PluginIdle /\ DocIdle

\* parse_table, lines 95-105: no lines, or a block that is not UMD format,
\* is returned as it is.
ReturnAsIs ==
    /\ tstage = "input"
    /\ tlines = <<>> \/ ~is_umd_table(tlines)
    /\ thtml' = Join(tlines, <<"\n">>)
    /\ tstage' = "returned"
    /\ UNCHANGED <<tlines, tok, cols, once, rows, loop, classifyVars, pluginVars, docVars>>

\* parse_table, lines 112-170: the rows are tokenized.
Tokenize ==
    /\ tstage = "input"
    /\ tlines # <<>> /\ is_umd_table(tlines)
    /\ rows' = TokenizeLines(tlines, 1)
    /\ tok' = rows'
    /\ tstage' = "tokenized"
    /\ UNCHANGED <<tlines, cols, once, thtml, loop, classifyVars, pluginVars, docVars>>

\* process_cell_spanning, first call: process_colspan(rows).
ProcessColspan ==
    /\ tstage = "tokenized"
    /\ rows' = process_colspan(rows)
    /\ cols' = rows'
    /\ tstage' = "colspanned"
    /\ UNCHANGED <<tlines, tok, once, thtml, loop, classifyVars, pluginVars, docVars>>

\* process_cell_spanning, second call: process_rowspan(rows).
ProcessRowspan ==
    /\ tstage = "colspanned"
    /\ rows' = process_rowspan(rows)
    /\ once' = rows'
    /\ tstage' = "spanned"
    /\ UNCHANGED <<tlines, tok, cols, thtml, loop, classifyVars, pluginVars, docVars>>

\* process_cell_spanning applied to its own result.
SpanAgain ==
    /\ tstage = "spanned"
    /\ rows' = process_cell_spanning(rows)
    /\ tstage' = "respanned"
    /\ UNCHANGED <<tlines, tok, cols, once, thtml, loop, classifyVars, pluginVars, docVars>>

\* parse_table, line 176: generate_table_html_with_header(&rows, has_thead).
GenerateHtml ==
    /\ tstage = "spanned"
    /\ thtml' = generate_table_html_with_header(rows, HasThead(tlines))
    /\ tstage' = "generated"
    /\ UNCHANGED <<tlines, tok, cols, once, rows, loop, classifyVars, pluginVars, docVars>>

TableNext ==
    \/ ReturnAsIs
    \/ Tokenize
    \/ ProcessColspan
    \/ ProcessRowspan
    \/ GenerateHtml
    \/ SpanAgain

SpecTable == TableInit /\ [][TableNext]_vars

-----------------------------------------------------------------------------
(* SpecHtml: parse_table on tables with decorated cells and header rows.    *)

\* The largest number of cells written in one table of SpecHtml.
MaxHtmlCells == 3

\* The cell texts: plain text, an empty cell, a header cell, a header cell
\* after a colour, a header cell after an alignment keyword and before a
\* colspan marker, a header cell before a colspan marker, cells with a COLOR
\* or SIZE value that is not a valid one, and cells with a valid one.
HtmlCellTexts ==
    { <<" ", "B", " ">>, <<>>, <<" ", "~", "A", " ">>, <<" ", "C", "O", "L", "O", "R", "(", "r", "e", "d", ")", ":", " ", "~", "H", "e", "a", "d", "e", "r", " ">>, <<" ", "C", "E", "N", "T", "E", "R", ":", " ", "~", "T", "i", "t", "l", "e", " ", "|", ">", " ">>,
      <<" ", "~", "A", " ", "|", ">", " ">>, <<" ", "C", "O", "L", "O", "R", "(", "n", "o", "t", "a", "c", "o", "l", "o", "r", ")", ":", " ", "x", " ">>, <<" ", "S", "I", "Z", "E", "(", "a", "b", "c", ")", ":", " ", "x", " ">>, <<" ", "S", "I", "Z", "E", "(", "2", ")", ":", " ", "x", " ">>,
      <<" ", "C", "O", "L", "O", "R", "(", "#", "f", "0", "0", ")", ":", " ", "x", " ">> }

\* The tables of at most n written cells over HtmlCellTexts.
RECURSIVE HtmlTablesOf(_)
HtmlTablesOf(n) ==
    {<<>>} \cup
    UNION { { <<JoinCells(r)>> \o t : r \in [1..k -> HtmlCellTexts],
                                      t \in HtmlTablesOf(n - k) } : k \in 1..n }

\* The table with the suffix `h` written after its first line.
WithHeaderSuffix(t) == [t EXCEPT ![1] = @ \o <<"h">>]

HtmlInit ==
    /\ \E t \in HtmlTablesOf(MaxHtmlCells) :
          tlines \in {t} \cup (IF t = <<>> THEN {} ELSE {WithHeaderSuffix(t)})
    /\ tstage = "input"
    /\ tok = <<>> /\ cols = <<>> /\ once = <<>> /\ rows = <<>> /\ thtml = <<>>
    /\ loop = <<>>
    /\ ClassifyIdle /\ PluginIdle /\ DocIdle

SpecHtml == HtmlInit /\ [][TableNext]_vars

\* str::replace(from, to): every occurrence of from, left to right, replaced.
StrReplace(s, from, to) ==
    ReplaceAll(s,
               LAMBDA t, i : IF IsPrefixAt(t, from, i)
                             THEN Captures("LITERAL", i + Len(from) - 1, <<>>, <<>>, from)
                             ELSE NoMatch,
               LAMBDA m, n : to).text

\* The sentinel of the table numbered table_counter, lines 309 and 330.
TableMarker(table_counter) ==
    <<"\n", "\n", "U", "M", "D", "_", "T", "A", "B", "L", "E", "_", "M", "A", "R", "K", "E", "R", "_">> \o Decimal(table_counter) \o <<"_", "E", "N", "D", "\n", "\n">>

\* The end of a run of table lines in extract_umd_tables, lines 301-315 and
\* 325-333: a block of UMD format is parsed, stored with its sentinel and
\* replaced in the result. st is [result, tables, table_counter].
ExtractBlock(st, table_lines) ==
    LET table_text == Join(table_lines, <<"\n">>)
        marker == TableMarker(st.table_counter)
    IN  IF is_umd_table(str_lines(table_text))
        THEN [result |-> StrReplace(st.result, table_text, marker),
              tables |-> Append(st.tables,
                                [marker |-> marker, html |-> parse_table(table_text)]),
              table_counter |-> st.table_counter + 1]
        ELSE st

\* The line loop of extract_umd_tables from line k on; table_lines is empty
\* when the loop is outside a table.
RECURSIVE ExtractLoop(_, _, _, _)
ExtractLoop(lines, k, table_lines, st) ==
    IF k > Len(lines)
    THEN IF table_lines # <<>> THEN ExtractBlock(st, table_lines) ELSE st
    ELSE IF StartsWith(Trim(lines[k]), <<"|">>)
    THEN ExtractLoop(lines, k + 1, Append(table_lines, lines[k]), st)
    ELSE IF table_lines # <<>>
    THEN Rebind(ExtractBlock(st, table_lines),
                LAMBDA next : ExtractLoop(lines, k + 1, <<>>, next))
    ELSE ExtractLoop(lines, k + 1, <<>>, st)

\* extract_umd_tables: the text and the table map.
extract_umd_tables(input) ==
    ExtractLoop(str_lines(input), 1, <<>>,
                [result |-> input, tables |-> <<>>, table_counter |-> 0])

\* The table restoration of apply_bootstrap_enhancements, lines 878-884, from
\* the k-th entry of the table map on.
RECURSIVE RestoreTables(_, _, _)
RestoreTables(html, tables, k) ==
    IF k > Len(tables) THEN html
    ELSE RestoreTables(
             StrReplace(html, <<"<", "p", ">">> \o Trim(tables[k].marker) \o <<"<", "/", "p", ">">>,
                        tables[k].html),
             tables, k + 1)

-----------------------------------------------------------------------------
(* remove_comments, preprocessor.rs *)

\* The grave accent (U+0060), the delimiter of inline code and of one kind
\* of code fence: a TLA+ string cannot hold the character, so the texts hold
\* this element in its place.
GRAVE == "GRAVE"

\* The two code fence markers.
GRAVE_FENCE == <<GRAVE, GRAVE, GRAVE>>
TILDE_FENCE == <<"~", "~", "~">>

\* The character loop of remove_comments over one line, lines 66-108, from
\* offset i. st is [processed_line, in_inline_code, prev_ch,
\* in_multiline_comment]; prev_ch is "" for '\0'.
RECURSIVE CommentChars(_, _, _)
CommentChars(line, i, st) ==
    IF i > Len(line) THEN st
    ELSE LET ch == line[i]
             peek == IF i + 1 <= Len(line) THEN line[i + 1] ELSE ""
         IN  IF ch = GRAVE
             THEN CommentChars(line, i + 1,
                      [st EXCEPT !.in_inline_code = ~@,
                                 !.processed_line = Append(@, ch), !.prev_ch = ch])
             ELSE IF st.in_inline_code
             THEN CommentChars(line, i + 1,
                      [st EXCEPT !.processed_line = Append(@, ch), !.prev_ch = ch])
             ELSE IF ~st.in_multiline_comment /\ ch = "/" /\ peek = "*"
             THEN CommentChars(line, i + 2,
                      [st EXCEPT !.in_multiline_comment = TRUE, !.prev_ch = "*"])
             ELSE IF st.in_multiline_comment /\ ch = "*" /\ peek = "/"
             THEN CommentChars(line, i + 2,
                      [st EXCEPT !.in_multiline_comment = FALSE, !.prev_ch = "/"])
             ELSE IF ~st.in_multiline_comment /\ ch = "/" /\ peek = "/" /\ st.prev_ch # ":"
             THEN st
             ELSE IF ~st.in_multiline_comment
             THEN CommentChars(line, i + 1,
                      [st EXCEPT !.processed_line = Append(@, ch), !.prev_ch = ch])
             ELSE CommentChars(line, i + 1, st)

\* The body of the line loop of remove_comments, lines 35-119. st is
\* [result, in_code_block, code_fence_marker, in_multiline_comment].
CommentLine(line, st) ==
    LET trimmed == TrimStart(line)
        kept == [st EXCEPT !.result = @ \o line \o <<"\n">>]
    IN  IF StartsWith(trimmed, GRAVE_FENCE) \/ StartsWith(trimmed, TILDE_FENCE)
        THEN IF ~st.in_code_block
             THEN [kept EXCEPT !.in_code_block = TRUE,
                               !.code_fence_marker =
                                   IF StartsWith(trimmed, GRAVE_FENCE) THEN GRAVE_FENCE
                                   ELSE TILDE_FENCE]
             ELSE IF Contains(trimmed, st.code_fence_marker)
             THEN [kept EXCEPT !.in_code_block = FALSE]
             ELSE kept
        ELSE IF st.in_code_block THEN kept
        ELSE LET c == CommentChars(line, 1,
                          [processed_line |-> <<>>, in_inline_code |-> FALSE, prev_ch |-> "",
                           in_multiline_comment |-> st.in_multiline_comment])
             IN  [st EXCEPT
                    !.in_multiline_comment = c.in_multiline_comment,
                    !.result = IF Trim(c.processed_line) # <<>>
                               THEN @ \o c.processed_line \o <<"\n">>
                               ELSE IF ~c.in_multiline_comment THEN @ \o <<"\n">>
                               ELSE @]

RECURSIVE CommentLines(_, _, _)
CommentLines(lines, k, st) ==
    IF k > Len(lines) THEN st
    ELSE CommentLines(lines, k + 1, Rebind(st, LAMBDA s : CommentLine(lines[k], s)))

\* remove_comments
remove_comments(input) ==
    Rebind(str_lines(input), LAMBDA lines :
    Rebind(CommentLines(lines, 1,
                        [result |-> <<>>, in_code_block |-> FALSE,
                         code_fence_marker |-> <<>>, in_multiline_comment |-> FALSE]).result,
           LAMBDA result :
        IF ~EndsWith(input, <<"\n">>) /\ EndsWith(result, <<"\n">>)
        THEN SubSeq(result, 1, Len(result) - 1)
        ELSE result))

-----------------------------------------------------------------------------

(* Definition lists: process_definition_lists, preprocessor.rs, and their   *)
(* restoration in postprocess_conflicts.                                    *)

DEFINITION_LIST == <<"D", "E", "F", "I", "N", "I", "T", "I", "O", "N", "_", "L", "I", "S", "T">>

\* serde_json's string: `"` and `\` get a backslash, quotes around. The
\* model's texts hold no control character.
JsonString(s) ==
    <<"\"">>
    \o Flatten([i \in 1..Len(s) |-> IF s[i] \in {"\"", "\\"} THEN <<"\\", s[i]>> ELSE <<s[i]>>])
    \o <<"\"">>

\* serde_json::to_string(&dl_items) for a Vec<(String, String)>.
JsonItems(dl_items) ==
    <<"[">>
    \o Join([i \in 1..Len(dl_items) |->
                <<"[">> \o JsonString(dl_items[i].term) \o <<",">>
                \o JsonString(dl_items[i].definition) \o <<"]">>], <<",">>)
    \o <<"]">>

\* The test of process_definition_lists for a line of a definition list.
IsDefinitionLine(line) ==
    StartsWith(TrimStart(line), <<":">>) /\ \E i \in 1..Len(line) : line[i] = "|"

\* strip_prefix(':') and split_once('|'), both parts trimmed.
DefinitionItem(line) ==
    LET stripped == Tail(TrimStart(line))
        bar == FindFrom(stripped, <<"|">>, 1)
    IN  [term |-> Trim(SubSeq(stripped, 1, bar - 1)),
         definition |-> Trim(SubSeq(stripped, bar + 1, Len(stripped)))]

\* The loop of process_definition_lists from line k on.
RECURSIVE DefinitionLoop(_, _, _)
DefinitionLoop(lines, k, result) ==
    IF k > Len(lines) THEN result
    ELSE IF IsDefinitionLine(lines[k])
    THEN LET last == CHOOSE j \in k..Len(lines) :
                        /\ \A i \in k..j : IsDefinitionLine(lines[i])
                        /\ j = Len(lines) \/ ~IsDefinitionLine(lines[j + 1])
             dl_items == [i \in 1..(last - k + 1) |-> DefinitionItem(lines[k + i - 1])]
         IN  DefinitionLoop(lines, last + 1,
                 Append(result, MarkerOpen(DEFINITION_LIST) \o JsonItems(dl_items)
                                \o MarkerClose(DEFINITION_LIST)))
    ELSE DefinitionLoop(lines, k + 1, Append(result, lines[k]))

process_definition_lists(input) ==
    Rebind(str_lines(input), LAMBDA lines : Join(DefinitionLoop(lines, 1, <<>>), <<"\n">>))

\* \{\{KIND:([^\}]+):KIND\}\} at i, a pattern of unescape_marker_quotes: the
\* run without `}` after the opening ends with `:KIND`, holds a character
\* before it, and `}}` follows. The capture is the whole match.
MarkerWithoutBraceAt(s, i, kind) ==
    IF s[i] # "{" \/ ~IsPrefixAt(s, MarkerOpen(kind), i) THEN NoMatch
    ELSE LET b == i + Len(MarkerOpen(kind))
             e == RunEnd(LAMBDA c : c # "}", s, b)
             tail == <<":">> \o kind
         IN  IF /\ e - b + 1 > Len(tail)
                /\ EndsWith(SubSeq(s, b, e), tail)
                /\ IsPrefixAt(s, <<"}", "}">>, e + 1)
             THEN Captures(kind, e + 2, <<>>, <<>>, SubSeq(s, i, e + 2))
             ELSE NoMatch

\* The closure of unescape_marker_quotes, lines 546-549.
UnescapedQuotes(m, n) == StrReplace(m.content, <<"&", "q", "u", "o", "t", ";">>, <<"\"">>)

\* unescape_marker_quotes, lines 514-553: the six patterns in their order.
unescape_marker_quotes(input) ==
    AndThen(AndThen(AndThen(AndThen(AndThen(AndThen([text |-> input, caps |-> <<>>],
        LAMBDA s, i : MarkerWithoutBraceAt(s, i, DEFINITION_LIST), UnescapedQuotes),
        LAMBDA s, i : MarkerWithoutBraceAt(s, i, INLINE_PLUGIN), UnescapedQuotes),
        LAMBDA s, i : MarkerWithoutBraceAt(s, i, BLOCK_PLUGIN), UnescapedQuotes),
        LAMBDA s, i : MarkerWithoutBraceAt(s, i, BLOCK_PLUGIN_ARGSONLY), UnescapedQuotes),
        LAMBDA s, i : MarkerWithoutBraceAt(s, i, INLINE_PLUGIN_ARGSONLY), UnescapedQuotes),
        LAMBDA s, i : MarkerWithoutBraceAt(s, i, INLINE_PLUGIN_NOARGS), UnescapedQuotes).text

\* The offset of the quote that closes the JSON string whose content starts
\* at i, 0 if there is none. Of the escapes, `\"` and `\\` are modelled.
RECURSIVE JsonStringEnd(_, _)
JsonStringEnd(s, i) ==
    IF i > Len(s) THEN 0
    ELSE IF s[i] = "\"" THEN i
    ELSE IF s[i] = "\\"
    THEN IF i + 1 <= Len(s) /\ s[i + 1] \in {"\"", "\\"} THEN JsonStringEnd(s, i + 2) ELSE 0
    ELSE JsonStringEnd(s, i + 1)

\* The text of a JSON string content.
RECURSIVE JsonUnescape(_)
JsonUnescape(body) ==
    IF body = <<>> THEN <<>>
    ELSE IF body[1] = "\\" THEN <<body[2]>> \o JsonUnescape(SubSeq(body, 3, Len(body)))
    ELSE <<body[1]>> \o JsonUnescape(Tail(body))

\* One ["term","definition"] at i: ok, the offset of its `]`, the item.
JsonPairAt(s, i) ==
    LET q1 == IF IsPrefixAt(s, <<"[", "\"">>, i) THEN JsonStringEnd(s, i + 2) ELSE 0
        q2 == IF q1 # 0 /\ IsPrefixAt(s, <<",", "\"">>, q1 + 1) THEN JsonStringEnd(s, q1 + 3) ELSE 0
    IN  IF q2 # 0 /\ IsPrefixAt(s, <<"]">>, q2 + 1)
        THEN [ok |-> TRUE, end |-> q2 + 1,
              item |-> [term |-> JsonUnescape(SubSeq(s, i + 2, q1 - 1)),
                        definition |-> JsonUnescape(SubSeq(s, q1 + 3, q2 - 1))]]
        ELSE [ok |-> FALSE]

RECURSIVE JsonPairsFrom(_, _, _)
JsonPairsFrom(s, i, items) ==
    LET p == JsonPairAt(s, i)
    IN  IF ~p.ok THEN <<>>
        ELSE IF IsPrefixAt(s, <<",">>, p.end + 1)
        THEN JsonPairsFrom(s, p.end + 2, Append(items, p.item))
        ELSE IF p.end + 1 = Len(s) /\ s[Len(s)] = "]" THEN Append(items, p.item)
        ELSE <<>>

\* serde_json::from_str::<Vec<(String, String)>>(..).unwrap_or_default(): the
\* items, none when the text is not such a JSON value. JSON written without
\* white space between its tokens, as serde_json writes it.
from_str_or_default(items_json) ==
    IF Len(items_json) >= 2 /\ items_json[1] = "[" THEN JsonPairsFrom(items_json, 2, <<>>)
    ELSE <<>>

\* \{\{DEFINITION_LIST:([\s\S]*?):DEFINITION_LIST\}\} at i
definition_list_marker(s, i) ==
    IF s[i] # "{" \/ ~IsPrefixAt(s, MarkerOpen(DEFINITION_LIST), i) THEN NoMatch
    ELSE LET b == i + Len(MarkerOpen(DEFINITION_LIST))
             t == FindFrom(s, MarkerClose(DEFINITION_LIST), b)
         IN  IF t = 0 THEN NoMatch
             ELSE Captures(DEFINITION_LIST, t + Len(MarkerClose(DEFINITION_LIST)) - 1,
                           <<>>, <<>>, SubSeq(s, b, t - 1))

\* The closure of the definition list restoration, lines 773-789.
DefinitionListHtml(m, n) ==
    LET items == from_str_or_default(m.content)
    IN  IF items = <<>> THEN <<>>
        ELSE <<"<", "d", "l", ">">>
             \o Flatten([i \in 1..Len(items) |->
                            <<"<", "d", "t", ">">> \o items[i].term \o <<"<", "/", "d", "t", ">", "<", "d", "d", ">">>
                            \o items[i].definition \o <<"<", "/", "d", "d", ">">>])
             \o <<"<", "/", "d", "l", ">">>

\* <p>\s*(<dl>.*?</dl>)\s*</p> at i; the capture is the list.
wrapped_dl(s, i) ==
    IF s[i] # "<" \/ ~IsPrefixAt(s, <<"<", "p", ">">>, i) THEN NoMatch
    ELSE LET b == RunEnd(IsWhitespace, s, i + 3) + 1
             ends == { t \in b..Len(s) :
                         /\ IsPrefixAt(s, <<"<", "/", "d", "l", ">">>, t)
                         /\ \A k \in b..(t - 1) : s[k] # "\n"
                         /\ IsPrefixAt(s, <<"<", "/", "p", ">">>, RunEnd(IsWhitespace, s, t + 5) + 1) }
         IN  IF ~IsPrefixAt(s, <<"<", "d", "l", ">">>, b) \/ ends = {} THEN NoMatch
             ELSE LET t == CHOOSE x \in ends : \A y \in ends : x <= y
                  IN  Captures(DEFINITION_LIST, RunEnd(IsWhitespace, s, t + 5) + 4,
                               <<>>, <<>>, SubSeq(s, b, t + 4))

\* The definition list passes of postprocess_conflicts, lines 770-794.
restore_definition_lists(text) ==
    AndThen(AndThen([text |-> text, caps |-> <<>>],
        definition_list_marker, DefinitionListHtml),
        wrapped_dl, LAMBDA m, n : m.content).text

-----------------------------------------------------------------------------

(* conflict_resolver.rs: preprocess_conflicts *)

IsLineStart(s, i) == i = 1 \/ s[i - 1] = "\n"

NotNewline(c) == c # "\n"

\* Offset of the last character of the line that holds offset i.
LineEnd(s, i) == RunEnd(NotNewline, s, i)

IsHash(c) == c = "#"

\* [a-zA-Z0-9_-]
IsIdChar(c) == IsWordChar(c) \/ c = "-"

\* \s*$ at p, under (?m): the offset of the last character consumed, or -1
\* if no end of line can be reached over whitespace.
TrailingSpaceEnd(s, p) ==
    LET u == RunEnd(IsWhitespace, s, p)
        stops == { k \in (p - 1)..u : k = Len(s) \/ s[k + 1] = "\n" }
    IN  IF stops = {} THEN -1
        ELSE CHOOSE k \in stops : \A q \in stops : q <= k

\* \s+\{#([a-zA-Z0-9_-]+)\}\s*$ at p: the id and the end of the match.
HeaderIdSuffix(s, p) ==
    LET v == RunEnd(IsWhitespace, s, p)
        d == RunEnd(IsIdChar, s, v + 3)
        e == IF v >= p /\ IsPrefixAt(s, <<"{", "#">>, v + 1) /\ d >= v + 3
                  /\ IsPrefixAt(s, <<"}">>, d + 1)
             THEN TrailingSpaceEnd(s, d + 2) ELSE -1
    IN  [ok |-> e # -1, end |-> e, id |-> SubSeq(s, v + 3, d)]

\* CUSTOM_HEADER_ID: (?m)^(#{1,6})\s+(.+?)\s+\{#([a-zA-Z0-9_-]+)\}\s*$
\* The title is the shortest text, from the first character after the
\* whitespace that follows the hashes, that the id suffix can follow.
CUSTOM_HEADER_ID(s, i) ==
    IF s[i] # "#" \/ ~IsLineStart(s, i) THEN NoMatch
    ELSE LET h == RunEnd(IsHash, s, i)
             w == RunEnd(IsWhitespace, s, h + 1)
             ends == { t \in (w + 1)..LineEnd(s, w + 1) : HeaderIdSuffix(s, t + 1).ok }
         IN  IF h - i + 1 > 6 \/ w <= h \/ ends = {} THEN NoMatch
             ELSE LET t == CHOOSE x \in ends : \A y \in ends : x <= y
                      suffix == HeaderIdSuffix(s, t + 1)
                  IN  Captures("HEADER", suffix.end, SubSeq(s, i, h), suffix.id,
                               SubSeq(s, w + 1, t))

\* The closure of the header id extraction, lines 201-216: the heading
\* without the {#id} part.
HeadingWithoutId(m, n) == m.function \o <<" ">> \o m.content

BLOCK_DECORATION == <<"B", "L", "O", "C", "K", "_", "D", "E", "C", "O", "R", "A", "T", "I", "O", "N">>

\* \s*.+$ at p, under (?m): the offset of the last character of the match,
\* 0 if there is none.
DecorationTail(s, p) ==
    LET v == RunEnd(IsWhitespace, s, p)
        inline == { q \in p..v : s[q] # "\n" }
    IN  IF v < Len(s) THEN LineEnd(s, v + 1)
        ELSE IF inline = {} THEN 0
        ELSE LineEnd(s, CHOOSE q \in inline : \A r \in inline : r <= q)

\* A decoration line whose head (the prefix up to its colon) ends at c.
DecorationLine(s, i, c) ==
    LET e == IF c = 0 THEN 0 ELSE DecorationTail(s, c + 1)
    IN  IF e = 0 THEN NoMatch
        ELSE Captures(BLOCK_DECORATION, e, <<>>, <<>>, SubSeq(s, i, e))

\* COLOR\([^)]*\): or SIZE\([^)]+\): at i: the offset of the colon, 0 if
\* no match; least is the least number of characters between the parentheses.
CallPrefixEnd(s, i, name, least) ==
    LET a == IF IsPrefixAt(s, name \o <<"(">>, i)
             THEN FindFrom(s, <<")">>, i + Len(name) + 1) ELSE 0
    IN  IF a # 0 /\ a - (i + Len(name) + 1) >= least /\ IsPrefixAt(s, <<":">>, a + 1)
        THEN a + 1 ELSE 0

\* (?m)^(COLOR\([^)]*\):\s*.+)$
color_prefix(s, i) ==
    IF s[i] # "C" \/ ~IsLineStart(s, i) THEN NoMatch
    ELSE DecorationLine(s, i, CallPrefixEnd(s, i, <<"C", "O", "L", "O", "R">>, 0))

\* (?m)^(SIZE\([^)]+\):\s*.+)$
size_prefix(s, i) ==
    IF s[i] # "S" \/ ~IsLineStart(s, i) THEN NoMatch
    ELSE DecorationLine(s, i, CallPrefixEnd(s, i, <<"S", "I", "Z", "E">>, 1))

\* (?m)^((RIGHT|CENTER|LEFT):\s*.+)$
align_prefix(s, i) ==
    IF ~IsLineStart(s, i) THEN NoMatch
    ELSE DecorationLine(s, i,
             IF IsPrefixAt(s, <<"R", "I", "G", "H", "T", ":">>, i) THEN i + 5
             ELSE IF IsPrefixAt(s, <<"C", "E", "N", "T", "E", "R", ":">>, i) THEN i + 6
             ELSE IF IsPrefixAt(s, <<"L", "E", "F", "T", ":">>, i) THEN i + 4
             ELSE 0)

\* The closure of the three decoration passes, lines 231-250.
DecorationMarker(m, n) ==
    MarkerOpen(BLOCK_DECORATION) \o m.content \o MarkerClose(BLOCK_DECORATION)

\* preprocess_conflicts: the text and, in caps, the captures of every pass.
\* The captures of the first pass are the custom header ids. The model's
\* documents hold no `> ... <` quote, so the blockquote pass leaves them as
\* they are.
preprocess_conflicts(input) ==
    Only({ Only({ Only({ Only({
        [text |-> process_definition_lists(extracted.result),
         ids |-> [n \in 1..Len(ids.caps) |-> ids.caps[n].args],
         tables |-> extracted.tables,
         caps |-> protected.caps]
        : extracted \in { extract_umd_tables(protected.text) } })
        : protected \in { protect_block_plugins(protect_inline_plugins(
                              AndThen(AndThen(AndThen([text |-> ids.text, caps |-> <<>>],
                                  color_prefix, DecorationMarker),
                                  size_prefix, DecorationMarker),
                                  align_prefix, DecorationMarker))) } })
        : ids \in { ReplaceAll(uncommented, CUSTOM_HEADER_ID, HeadingWithoutId) } })
        : uncommented \in { remove_comments(input) } })

-----------------------------------------------------------------------------
(* The embedded renderer (comrak, called by parser.rs: parse_to_html), as   *)
(* CommonMark defines it for documents made of ATX headings, paragraphs     *)
(* and blank lines, whose text holds no inline syntax: a heading line       *)
(* becomes <hN>title</hN>, consecutive other lines become one paragraph,    *)
(* its lines joined by a newline.                                           *)

\* The lines of a text.
RECURSIVE SplitLines(_)
SplitLines(s) ==
    LET n == FindFrom(s, <<"\n">>, 1)
    IN  IF n = 0 THEN <<s>>
        ELSE <<SubSeq(s, 1, n - 1)>> \o SplitLines(SubSeq(s, n + 1, Len(s)))

\* The lines joined by a newline.
RECURSIVE JoinLines(_)
JoinLines(ls) ==
    IF ls = <<>> THEN <<>>
    ELSE IF Len(ls) = 1 THEN ls[1]
    ELSE ls[1] \o <<"\n">> \o JoinLines(Tail(ls))

\* The level of an ATX heading line (1 to 6 hashes, then a space or the end
\* of the line); 0 for any other line.
AtxLevel(l) ==
    LET h == RunEnd(IsHash, l, 1)
    IN  IF h >= 1 /\ h <= 6 /\ (h = Len(l) \/ l[h + 1] \in {" ", "\t"})
        THEN h ELSE 0

\* The text of a paragraph or heading as HTML: a `"` is written &quot;. The
\* model's documents hold no `<`, `>` or `&` outside what a later pass owns.
EscapeText(s) == StrReplace(s, <<"\"">>, <<"&", "q", "u", "o", "t", ";">>)

RenderParagraph(para) ==
    IF para = <<>> THEN <<>>
    ELSE <<"<", "p", ">">> \o EscapeText(JoinLines(para)) \o <<"<", "/", "p", ">", "\n">>

RenderHeading(l) ==
    LET level == Decimal(AtxLevel(l))
    IN  <<"<", "h">> \o level \o <<">">> \o Trim(SubSeq(l, AtxLevel(l) + 1, Len(l)))
            \o <<"<", "/", "h">> \o level \o <<">", "\n">>

RECURSIVE RenderBlocks(_, _, _)
RenderBlocks(ls, k, para) ==
    IF k > Len(ls) THEN RenderParagraph(para)
    ELSE IF Trim(ls[k]) = <<>>
    THEN RenderParagraph(para) \o RenderBlocks(ls, k + 1, <<>>)
    ELSE IF AtxLevel(ls[k]) > 0
    THEN RenderParagraph(para) \o RenderHeading(ls[k]) \o RenderBlocks(ls, k + 1, <<>>)
    ELSE RenderBlocks(ls, k + 1, Append(para, Trim(ls[k])))

\* parse_to_html
parse_to_html(input) == RenderBlocks(SplitLines(input), 1, <<>>)

-----------------------------------------------------------------------------
(* conflict_resolver.rs: postprocess_conflicts; block_decorations.rs *)

NotLt(c) == c # "<"

IsLevelDigit(c) == c \in {"1", "2", "3", "4", "5", "6"}

\* header_regex: <h([1-6])>([^<]+)</h([1-6])>
header_regex(s, i) ==
    IF s[i] # "<" \/ ~IsPrefixAt(s, <<"<", "h">>, i) THEN NoMatch
    ELSE LET t == RunEnd(NotLt, s, i + 4)
         IN  IF /\ i + 3 <= Len(s) /\ IsLevelDigit(s[i + 2]) /\ s[i + 3] = ">"
                /\ t >= i + 4
                /\ IsPrefixAt(s, <<"<", "/", "h">>, t + 1)
                /\ t + 5 <= Len(s) /\ IsLevelDigit(s[t + 4]) /\ s[t + 5] = ">"
             THEN Captures("HEADING", t + 5, <<s[i + 2]>>, <<s[t + 4]>>,
                           SubSeq(s, i + 4, t))
             ELSE NoMatch

\* The anchor id of the heading numbered heading_counter, lines 567-573.
AnchorId(ids, heading_counter) ==
    IF heading_counter \in DOMAIN ids
    THEN <<"h", "-">> \o ids[heading_counter]
    ELSE <<"h", "-">> \o Decimal(heading_counter)

\* The closure of the header id injection, lines 561-579.
HeadingWithAnchor(ids, m, heading_counter) ==
    LET id == AnchorId(ids, heading_counter)
    IN  <<"<", "h">> \o m.function \o <<">", "<", "a", " ", "h", "r", "e", "f", "=", "\"", "#">> \o id
            \o <<"\"", " ", "a", "r", "i", "a", "-", "h", "i", "d", "d", "e", "n", "=", "\"", "t", "r", "u", "e", "\"", " ", "c", "l", "a", "s", "s", "=", "\"", "a", "n", "c", "h", "o", "r", "\"", " ", "i", "d", "=", "\"">> \o id
            \o <<"\"", ">", "<", "/", "a", ">">> \o m.content \o <<"<", "/", "h">> \o m.args \o <<">">>

\* block_decoration_marker:
\* (?s)<p>\{\{BLOCK_DECORATION:(.+?):BLOCK_DECORATION\}\}</p>
block_decoration_marker(s, i) ==
    IF s[i] # "<" \/ ~IsPrefixAt(s, <<"<", "p", ">">> \o MarkerOpen(BLOCK_DECORATION), i)
    THEN NoMatch
    ELSE LET b == i + 3 + Len(MarkerOpen(BLOCK_DECORATION))
             close == MarkerClose(BLOCK_DECORATION) \o <<"<", "/", "p", ">">>
             t == FindFrom(s, close, b + 1)
         IN  IF t = 0 THEN NoMatch
             ELSE Captures(BLOCK_DECORATION, t + Len(close) - 1, <<>>, <<>>,
                           SubSeq(s, b, t - 1))

\* The prefixes apply_block_decorations looks for at the start of a line.
DECORATION_PREFIXES ==
    { <<"S", "I", "Z", "E", "(">>, <<"C", "O", "L", "O", "R", "(">>, <<"T", "R", "U", "N", "C", "A", "T", "E", ":">>, <<"T", "O", "P", ":">>, <<"M", "I", "D", "D", "L", "E", ":">>, <<"B", "O", "T", "T", "O", "M", ":">>,
      <<"B", "A", "S", "E", "L", "I", "N", "E", ":">>, <<"J", "U", "S", "T", "I", "F", "Y", ":">>, <<"R", "I", "G", "H", "T", ":">>, <<"C", "E", "N", "T", "E", "R", ":">>, <<"L", "E", "F", "T", ":">> }

\* ALIGN_EXTRACT with map_text_align: the alignment keywords and their classes.
ALIGN_EXTRACT ==
    << [prefix |-> <<"J", "U", "S", "T", "I", "F", "Y", ":">>, class |-> <<"t", "e", "x", "t", "-", "j", "u", "s", "t", "i", "f", "y">>],
       [prefix |-> <<"R", "I", "G", "H", "T", ":">>, class |-> <<"t", "e", "x", "t", "-", "e", "n", "d">>],
       [prefix |-> <<"C", "E", "N", "T", "E", "R", ":">>, class |-> <<"t", "e", "x", "t", "-", "c", "e", "n", "t", "e", "r">>],
       [prefix |-> <<"L", "E", "F", "T", ":">>, class |-> <<"t", "e", "x", "t", "-", "s", "t", "a", "r", "t">>] >>

\* ALIGN_EXTRACT at offset i of a line: the index of the keyword, or 0.
AlignAt(line, i) ==
    IF \E k \in 1..Len(ALIGN_EXTRACT) : IsPrefixAt(line, ALIGN_EXTRACT[k].prefix, i)
    THEN CHOOSE k \in 1..Len(ALIGN_EXTRACT) : IsPrefixAt(line, ALIGN_EXTRACT[k].prefix, i)
    ELSE 0

\* parse_prefixes and to_html_attrs, for a line that holds no SIZE(, COLOR(,
\* TRUNCATE: and no vertical alignment keyword: the paragraph of the line.
DecoratedParagraph(line) ==
    LET at == { i \in 1..Len(line) : AlignAt(line, i) # 0 }
    IN  IF at = {} THEN <<"<", "p", ">">> \o Trim(line) \o <<"<", "/", "p", ">", "\n">>
        ELSE LET i == CHOOSE x \in at : \A y \in at : x <= y
                 a == ALIGN_EXTRACT[AlignAt(line, i)]
             IN  <<"<", "p", " ", "c", "l", "a", "s", "s", "=", "\"">> \o a.class \o <<"\"", ">">>
                     \o Trim(SubSeq(line, i + Len(a.prefix), Len(line)))
                     \o <<"<", "/", "p", ">", "\n">>

\* apply_block_decorations, on the one line of a decoration payload.
apply_block_decorations(html) ==
    TrimEnd(IF \E p \in DECORATION_PREFIXES : StartsWith(html, p)
            THEN DecoratedParagraph(html)
            ELSE html \o <<"\n">>)

\* The closure of the block decoration restoration, lines 601-609.
DecorationHtml(m, n) ==
    IF Contains(m.content, <<"\n">>) THEN <<"<", "p", ">">> \o m.content \o <<"<", "/", "p", ">">>
    ELSE apply_block_decorations(m.content)

\* postprocess_conflicts: the HTML and the anchors injected, in order. The
\* rendered documents of the model hold no blockquote marker, no link, no
\* checkbox, no blockquote and no table of the renderer, so the other
\* passes leave them as they are.
postprocess_conflicts(html, header_map_) ==
    Only({ Only({ Only({
        [text |-> RestoreTables(replaced, header_map_.tables, 1),
         anchors |-> [n \in 1..Len(headed.caps) |->
                         [title |-> headed.caps[n].content,
                          id |-> AnchorId(header_map_.ids, n)]]]
        : replaced \in { restore_definition_lists(
                             restore_plugins(
                                 [text |-> ReplaceAll(headed.text, block_decoration_marker,
                                                      DecorationHtml).text,
                                  caps |-> <<>>]).text) } })
        : headed \in { ReplaceAll(unescaped, header_regex,
                                  LAMBDA m, n : HeadingWithAnchor(header_map_.ids, m, n)) } })
        : unescaped \in { unescape_marker_quotes(html) } })

-----------------------------------------------------------------------------
(* SpecDoc: a document of lines goes through preprocess_conflicts, the      *)
(* embedded renderer and postprocess_conflicts.                             *)

\* The largest number of lines of a document.
MaxDocLines == 3

\* A heading line as written, with or without a custom id.
HeadingLine(hashes, title, id) ==
    [heading |-> TRUE, title |-> title, id |-> id,
     text |-> hashes \o <<" ">> \o title
                 \o (IF id = <<>> THEN <<>> ELSE <<" ", "{", "#">> \o id \o <<"}">>)]

TextLine(text) == [heading |-> FALSE, title |-> <<>>, id |-> <<>>, text |-> text]

DocLines ==
    { HeadingLine(<<"#">>, <<"A">>, <<>>), HeadingLine(<<"#", "#">>, <<"B">>, <<"b">>),
      HeadingLine(<<"#">>, <<"C">>, <<"c">>),
      TextLine(<<"h", "e", "l", "l", "o">>), TextLine(<<>>), TextLine(<<"C", "E", "N", "T", "E", "R", ":", " ", "x">>) }

Documents == UNION { [1..n -> DocLines] : n \in 0..MaxDocLines }

DocInit ==
    /\ dlines \in Documents
    /\ dtext = JoinLines([k \in 1..Len(dlines) |-> dlines[k].text])
    /\ dstage = "input"
    /\ header_map = HeaderIdMap_new /\ anchors = <<>>
    /\ TableIdle /\ ClassifyIdle /\ PluginIdle

\* lib.rs, line 130: preprocess_conflicts
Preprocess ==
    /\ dstage = "input"
    /\ \E r \in { preprocess_conflicts(dtext) } :
           dtext' = r.text /\ header_map' = [ids |-> r.ids, tables |-> r.tables]
    /\ dstage' = "preprocessed"
    /\ UNCHANGED <<dlines, anchors, tableVars, classifyVars, pluginVars>>

\* lib.rs, line 137: parse_to_html
Render ==
    /\ dstage = "preprocessed"
    /\ dtext' = parse_to_html(dtext)
    /\ dstage' = "rendered"
    /\ UNCHANGED <<dlines, header_map, anchors, tableVars, classifyVars, pluginVars>>

\* extensions/mod.rs, line 52: postprocess_conflicts
Postprocess ==
    /\ dstage = "rendered"
    /\ \E r \in { postprocess_conflicts(dtext, header_map) } :
           dtext' = r.text /\ anchors' = r.anchors
    /\ dstage' = "post"
    /\ UNCHANGED <<dlines, header_map, tableVars, classifyVars, pluginVars>>

DocNext == Preprocess \/ Render \/ Postprocess

SpecDoc == DocInit /\ [][DocNext]_vars

-----------------------------------------------------------------------------
(* Claims about the document pipeline. *)

\* The delimiters of the markers.
MARKER_DELIMITERS ==
    { <<"{", "{", "I", "N", "L", "I", "N", "E", "_", "P", "L", "U", "G", "I", "N">>, <<"{", "{", "B", "L", "O", "C", "K", "_", "P", "L", "U", "G", "I", "N">>, <<"{", "{", "B", "L", "O", "C", "K", "_", "D", "E", "C", "O", "R", "A", "T", "I", "O", "N", ":">>,
      <<"{", "{", "U", "M", "D", "_", "B", "L", "O", "C", "K", "Q", "U", "O", "T", "E", ":">>, <<"{", "{", "D", "E", "F", "I", "N", "I", "T", "I", "O", "N", "_", "L", "I", "S", "T", ":">>, <<"U", "M", "D", "_", "T", "A", "B", "L", "E", "_", "M", "A", "R", "K", "E", "R", "_">> }

\* C2. Marker leakage: the HTML that postprocess_conflicts returns holds
\* none of the marker delimiters, whatever the document.
NoMarkerLeak ==
    dstage = "post" => \A d \in MARKER_DELIMITERS : ~Contains(dtext, d)

\* The anchors C3 states for the headings of a document, in order.
ExpectedAnchors(lines) ==
    LET hs == SelectSeq(lines, LAMBDA l : l.heading)
    IN  [i \in 1..Len(hs) |->
            [title |-> hs[i].title,
             id |-> IF hs[i].id # <<>> THEN <<"h", "-">> \o hs[i].id
                    ELSE <<"h", "-">> \o Decimal(i)]]

\* C3. Heading anchors: after the pipeline every heading that carried a
\* {#id} suffix has the anchor h-<id> and every other heading has h-<i>,
\* i its 1-based number among all the headings of the document.
HeadingAnchors ==
    dstage = "post" => anchors = ExpectedAnchors(dlines)

-----------------------------------------------------------------------------
(* SpecExtract: the pipeline on documents that hold table blocks.           *)

\* The largest number of lines of a document with table blocks.
MaxExtractLines == 4

\* The separator line of a native table.
SEPARATOR_LINE == <<"|", "-", "-", "-", "|", "-", "-", "-", "|">>

\* The lines of the documents: two table rows, a separator line and a text
\* line. A block whose second line is the separator line is native for
\* is_umd_table; its first line has one cell and the separator two, so
\* the renderer makes a paragraph of it.
ExtractLines == { <<"|", " ", "a", " ", "|">>, <<"|", " ", "b", " ", "|">>, SEPARATOR_LINE, <<"x">> }

\* No separator line directly follows a separator line (the renderer would
\* make a table of the two).
ExtractDocuments ==
    { d \in UNION { [1..n -> ExtractLines] : n \in 0..MaxExtractLines } :
        \A k \in 1..(Len(d) - 1) : ~(d[k] = SEPARATOR_LINE /\ d[k + 1] = SEPARATOR_LINE) }

ExtractInit ==
    /\ \E d \in ExtractDocuments :
          /\ dlines = [k \in 1..Len(d) |-> TextLine(d[k])]
          /\ dtext = Join(d, <<"\n">>)
    /\ dstage = "input"
    /\ header_map = HeaderIdMap_new /\ anchors = <<>>
    /\ TableIdle /\ ClassifyIdle /\ PluginIdle

SpecExtract == ExtractInit /\ [][DocNext]_vars

-----------------------------------------------------------------------------
(* Claims about the table sentinels. *)

\* The table blocks of a document: the maximal runs of lines that start with
\* `|`, each with the offsets of its first and last line.
TableBlocks(lines) ==
    LET IsTableLine(k) == StartsWith(Trim(lines[k].text), <<"|">>)
        firsts == { k \in 1..Len(lines) :
                      IsTableLine(k) /\ (k = 1 \/ ~IsTableLine(k - 1)) }
        LastOf(f) == CHOOSE l \in f..Len(lines) :
                        /\ \A k \in f..l : IsTableLine(k)
                        /\ l = Len(lines) \/ ~IsTableLine(l + 1)
    IN  { [first |-> f, last |-> LastOf(f)] : f \in firsts }

BlockText(lines, b) ==
    Join([k \in 1..(b.last - b.first + 1) |-> lines[b.first + k - 1].text], <<"\n">>)

IsUmdBlock(lines, b) == is_umd_table(str_lines(BlockText(lines, b)))

UmdBlocks(lines) == { b \in TableBlocks(lines) : IsUmdBlock(lines, b) }

\* The number, from 0, of a custom-grammar block among those of its document.
BlockNumber(lines, b) ==
    Cardinality({ o \in UmdBlocks(lines) : o.first < b.first })

\* The document with every custom-grammar block replaced by its own sentinel.
RECURSIVE ExpectedExtraction(_, _)
ExpectedExtraction(lines, k) ==
    IF k > Len(lines) THEN <<>>
    ELSE LET here == { b \in UmdBlocks(lines) : b.first = k }
         IN  IF here = {} THEN <<lines[k].text>> \o ExpectedExtraction(lines, k + 1)
             ELSE LET b == CHOOSE x \in here : TRUE
                  IN  <<TableMarker(BlockNumber(lines, b))>>
                      \o ExpectedExtraction(lines, b.last + 1)

\* The number of occurrences of p in s.
Occurrences(s, p) == Cardinality({ i \in 1..Len(s) : IsPrefixAt(s, p, i) })

\* C11. Table sentinels are one-to-one: after pre-processing the table map
\* holds one entry per custom-grammar block, in order, the i-th with the
\* sentinel numbered i and the HTML of the i-th block; the text is the
\* document with each such block replaced by its own sentinel (as
\* process_definition_lists, which holds no definition line here, hands it
\* on), so each sentinel occurs exactly once; after post-processing no
\* sentinel is left
\* and the output holds one table per custom-grammar block.
TableSentinelsOneToOne ==
    LET blocks == UmdBlocks(dlines)
        tables == header_map.tables
    IN  /\ dstage \in {"preprocessed", "rendered", "post"} =>
              /\ Len(tables) = Cardinality(blocks)
              /\ \A b \in blocks :
                    LET e == tables[BlockNumber(dlines, b) + 1]
                    IN  /\ e.marker = TableMarker(BlockNumber(dlines, b))
                        /\ e.html = parse_table(BlockText(dlines, b))
        /\ dstage = "preprocessed" =>
              /\ dtext = process_definition_lists(Join(ExpectedExtraction(dlines, 1), <<"\n">>))
              /\ \A b \in blocks :
                    Occurrences(dtext, Trim(TableMarker(BlockNumber(dlines, b)))) = 1
        /\ dstage = "post" =>
              /\ ~Contains(dtext, <<"U", "M", "D", "_", "T", "A", "B", "L", "E", "_", "M", "A", "R", "K", "E", "R", "_">>)
              /\ Occurrences(dtext, <<"<", "t", "a", "b", "l", "e">>) = Cardinality(blocks)

NativeBlocks(lines) == { b \in TableBlocks(lines) : ~IsUmdBlock(lines, b) }

\* C12. Native tables are untouched: after pre-processing the text still
\* holds the text of every block that is_umd_table classifies as native, as
\* often as the document holds a native block with that text, whatever
\* custom-grammar blocks the document holds; a document without a
\* custom-grammar block comes back unchanged with an empty table map.
NativeTablesUntouched ==
    dstage = "preprocessed" =>
        /\ \A b \in NativeBlocks(dlines) :
              Occurrences(dtext, BlockText(dlines, b))
                  >= Cardinality({ o \in NativeBlocks(dlines) :
                                     BlockText(dlines, o) = BlockText(dlines, b) })
        /\ UmdBlocks(dlines) = {} =>
              /\ dtext = Join([k \in 1..Len(dlines) |-> dlines[k].text], <<"\n">>)
              /\ header_map.tables = <<>>

-----------------------------------------------------------------------------
(* Claims about the cells and the HTML of parse_table. *)

\* A content that starts with a header marker or a decoration prefix.
StartsWithDecoration(content) ==
    \/ StartsWith(content, <<"~">>)
    \/ StartsWith(content, <<"C", "O", "L", "O", "R", "(">>)
    \/ StartsWith(content, <<"S", "I", "Z", "E", "(">>)
    \/ \E k \in 1..Len(ALIGN_PREFIXES) : StartsWith(content, ALIGN_PREFIXES[k].prefix)

\* C13. Cell content has its decorations stripped: in the rows parse_table
\* generates its HTML from, no cell's content starts with `~`, `COLOR(`,
\* `SIZE(` or an alignment keyword and its colon; the line
\* `| COLOR(red): ~Header ` gives one header cell with the class text-red and
\* the content Header, and the line `| CENTER: ~Title |> |` gives one header
\* cell with the class text-center, the content Title and colspan 2.
CellDecorationsStripped ==
    tstage \in {"spanned", "generated"} =>
        /\ \A r \in 1..Len(rows) : \A c \in 1..Len(rows[r]) :
              ~StartsWithDecoration(rows[r][c].content)
        /\ tlines = <<JoinCells(<<<<" ", "C", "O", "L", "O", "R", "(", "r", "e", "d", ")", ":", " ", "~", "H", "e", "a", "d", "e", "r", " ">>>>)>> =>
              rows = << << [Cell_new(<<"H", "e", "a", "d", "e", "r">>, TRUE) EXCEPT !.classes = <<<<"t", "e", "x", "t", "-", "r", "e", "d">>>>] >> >>
        /\ tlines = <<JoinCells(<<<<" ", "C", "E", "N", "T", "E", "R", ":", " ", "~", "T", "i", "t", "l", "e", " ", "|", ">", " ">>, <<>>>>)>> =>
              rows = << << [Cell_new(<<"T", "i", "t", "l", "e">>, TRUE) EXCEPT
                              !.classes = <<<<"t", "e", "x", "t", "-", "c", "e", "n", "t", "e", "r">>>>, !.colspan = 2] >> >>

\* The cell texts whose COLOR or SIZE value is not a valid one: a colour that
\* is no Bootstrap name and no hex colour, a size that is no number.
InvalidDecorationCells == { <<" ", "C", "O", "L", "O", "R", "(", "n", "o", "t", "a", "c", "o", "l", "o", "r", ")", ":", " ", "x", " ">>, <<" ", "S", "I", "Z", "E", "(", "a", "b", "c", ")", ":", " ", "x", " ">> }

\* The table is written from such cells and empty cells only.
OnlyInvalidDecorations(lines) ==
    \A i \in 1..Len(lines) :
        \E k \in 1..MaxHtmlCells :
            \E r \in [1..k -> InvalidDecorationCells \cup {<<>>}] : lines[i] = JoinCells(r)

\* C14. Invalid decoration values are ignored in table cells: a cell written
\* with a COLOR or SIZE value that is not a valid one ends with no class and
\* no style, keeps its content, and the HTML of the table holds no style
\* attribute and no class attribute on a cell.
InvalidDecorationsIgnored ==
    OnlyInvalidDecorations(tlines) =>
        /\ tstage \in {"tokenized", "colspanned", "spanned", "generated"} =>
              \A r \in 1..Len(rows) : \A c \in 1..Len(rows[r]) :
                  /\ rows[r][c].classes = <<>>
                  /\ rows[r][c].styles = <<>>
                  /\ rows[r][c].content \in {<<"x">>, <<>>}
        /\ tstage = "generated" =>
              /\ ~Contains(thtml, <<"s", "t", "y", "l", "e", "=">>)
              /\ ~Contains(thtml, <<"<", "t", "d", " ", "c", "l", "a", "s", "s", "=">>)
              /\ ~Contains(thtml, <<"<", "t", "h", " ", "c", "l", "a", "s", "s", "=">>)

\* The offset of the first occurrence of p in s, 0 for none.
FirstOffset(s, p) ==
    IF Contains(s, p)
    THEN CHOOSE i \in 1..Len(s) : IsPrefixAt(s, p, i) /\ \A k \in 1..(i - 1) : ~IsPrefixAt(s, p, k)
    ELSE 0

\* C18. Header-row detection: the HTML parse_table generates holds a
\* <thead> iff the first line, trimmed, ends with `h`; then the rows are
\* those of the table written without the `h`, the first row is the only
\* row inside <thead> and the later rows are inside <tbody>; otherwise
\* every row is inside <tbody>. The number of <th> cells is the number of
\* cells written with the header marker `~`, every other cell is a <td>.
HeaderRowDetection ==
    tstage = "generated" =>
        LET suffix == EndsWith(Trim(tlines[1]), <<"h">>)
            written == [tlines EXCEPT ![1] = SubSeq(Trim(@), 1, Len(Trim(@)) - 1)]
            head_end == FirstOffset(thtml, <<"<", "/", "t", "h", "e", "a", "d", ">">>)
            th == Occurrences(thtml, <<"<", "t", "h", ">">>) + Occurrences(thtml, <<"<", "t", "h", " ">>)
            td == Occurrences(thtml, <<"<", "t", "d", ">">>) + Occurrences(thtml, <<"<", "t", "d", " ">>)
            cells == Len(Flatten(rows))
        IN  /\ Contains(thtml, <<"<", "t", "h", "e", "a", "d", ">">>) <=> suffix
            /\ Occurrences(thtml, <<"<", "t", "r", ">">>) = Len(rows)
            /\ suffix =>
                  /\ tok = TokenizeLines(written, 1)
                  /\ Cardinality({ i \in 1..head_end : IsPrefixAt(thtml, <<"<", "t", "r", ">">>, i) }) = 1
                  /\ Contains(thtml, <<"<", "t", "h", "e", "a", "d", ">">> \o RowHtml(rows[1]) \o <<"<", "/", "t", "h", "e", "a", "d", ">">>)
                  /\ Len(rows) > 1 =>
                        Contains(thtml, <<"<", "/", "t", "h", "e", "a", "d", ">", "<", "t", "b", "o", "d", "y", ">">> \o RowsHtml(Tail(rows)) \o <<"<", "/", "t", "b", "o", "d", "y", ">">>)
                  /\ Len(rows) = 1 => ~Contains(thtml, <<"<", "t", "b", "o", "d", "y", ">">>)
            /\ ~suffix =>
                  Contains(thtml, <<"u", "m", "d", "-", "t", "a", "b", "l", "e", "\"", ">", "<", "t", "b", "o", "d", "y", ">">> \o RowsHtml(rows) \o <<"<", "/", "t", "b", "o", "d", "y", ">">>)
            /\ th = Occurrences(Flatten(tlines), <<"~">>)
            /\ td = cells - th

-----------------------------------------------------------------------------
(* SpecMarker: a text that holds plugin marker text whose payload no        *)
(* protector wrote goes through the protectors and the plugin restoration.  *)

\* Payloads: a character outside the base64 alphabet, a group cut short,
\* missing padding, a space inside, the encoding of the byte 255 (not UTF-8),
\* and the encoding of `c`.
MarkerPayloads == { <<"!">>, <<"Y", "w", "=">>, <<"Y", "Q">>, <<"a", " ", "b">>, <<"/", "w", "=", "=">>, <<"Y", "w", "=", "=">> }

\* The markers that follow the marker in the text: none, a no-args inline
\* marker, a block marker with the encoding of `c`.
FollowingMarkers ==
    { <<>>,
      <<" ">> \o MarkerOpen(INLINE_PLUGIN_NOARGS) \o <<"g">> \o MarkerClose(INLINE_PLUGIN_NOARGS),
      <<" ">> \o Marker3(BLOCK_PLUGIN, <<"g">>, <<>>, <<"Y", "w", "=", "=">>) }

MarkerCalls ==
    { [form |-> "marker", kind |-> k, function |-> f, args |-> a, content |-> p, tail |-> t] :
        k \in {INLINE_PLUGIN, BLOCK_PLUGIN}, f \in Functions, a \in {<<>>, <<"a">>},
        p \in MarkerPayloads, t \in FollowingMarkers }
    \cup
    { [form |-> "marker", kind |-> BLOCK_PLUGIN_ARGSONLY, function |-> f, args |-> <<>>,
       content |-> p, tail |-> t] :
        f \in Functions, p \in MarkerPayloads, t \in FollowingMarkers }

\* The text: the marker with the payload in its encoded field, then the tail.
MarkerText(call) ==
    (IF call.kind = BLOCK_PLUGIN_ARGSONLY
     THEN Marker2(call.kind, call.function, call.content)
     ELSE Marker3(call.kind, call.function, call.args, call.content))
    \o call.tail

MarkerInit ==
    /\ pcall \in MarkerCalls
    /\ ptext = MarkerText(pcall)
    /\ pstage = "input"
    /\ pmarked = <<>> /\ captured = <<>> /\ restored = <<>>
    /\ TableIdle /\ ClassifyIdle /\ DocIdle

SpecMarker == MarkerInit /\ [][PluginNext]_vars

\* The payloads that are not the base64 encoding of a text.
UndecodablePayloads == MarkerPayloads \ { <<"Y", "w", "=", "=">> }

\* C15. Decode fallback: when the payload of an INLINE_PLUGIN, BLOCK_PLUGIN
\* or BLOCK_PLUGIN_ARGSONLY marker is not base64 or decodes to bytes that are
\* not UTF-8, the restoration takes the payload itself as the content (for
\* BLOCK_PLUGIN_ARGSONLY as the args), still emits the plugin element with
\* it (the <template> element, unless the inline function is a decoration
\* function with an element of its own), leaves no marker in the text and
\* restores the marker that follows.
DecodeFallback ==
    (pstage = "restored" /\ pcall.form = "marker" /\ pcall.content \in UndecodablePayloads) =>
        LET argsonly == pcall.kind = BLOCK_PLUGIN_ARGSONLY
            inner == IF argsonly THEN render_args_as_data(pcall.content)
                     ELSE render_args_as_data(pcall.args) \o escape_html_text(pcall.content)
        IN  /\ \E i \in 1..Len(restored) :
                  /\ restored[i].kind = pcall.kind
                  /\ restored[i].function = pcall.function
                  /\ IF argsonly THEN restored[i].args = pcall.content
                     ELSE restored[i].content = pcall.content
            /\ (pcall.kind # INLINE_PLUGIN \/ pcall.function = <<"f">>) =>
                  StartsWith(ptext, PluginTemplate(pcall.function, inner))
            /\ Contains(ptext, pcall.content)
            /\ ~Contains(ptext, <<"{", "{">>)
            /\ Len(restored) = (IF pcall.tail = <<>> THEN 1 ELSE 2)
            /\ pcall.tail # <<>> =>
                  \/ EndsWith(ptext, <<" ">> \o PluginTemplate(<<"g">>, <<>>))
                  \/ EndsWith(ptext, <<" ">> \o PluginTemplate(<<"g">>, <<"c">>))

\* A block marker whose payload decodes to the byte 255 was restored with the
\* payload as its content, and the marker after it was restored too.
DecodeFallbackWitness ==
    /\ pstage = "restored"
    /\ pcall.form = "marker"
    /\ pcall.kind = BLOCK_PLUGIN
    /\ pcall.content = <<"/", "w", "=", "=">>
    /\ pcall.tail # <<>>
    /\ Len(restored) = 2
    /\ \E i \in 1..2 : restored[i].content = <<"/", "w", "=", "=">>
    /\ StartsWith(ptext, PluginTemplate(pcall.function,
                             render_args_as_data(pcall.args) \o <<"/", "w", "=", "=">>))

-----------------------------------------------------------------------------
(* SpecDefList: the pipeline on documents that hold definition lists.       *)

\* The largest number of lines of a document with definition lists.
MaxDlLines == 3

\* The lines: three definition lines, one with a `}` in its term, and a text
\* line.
DlLines == { <<":", "H", "T", "M", "L", "|", "M", "a", "r", "k", "u", "p">>, <<":", "Q", "}", "z", "|", "Z", "e", "b", "r", "a">>, <<":", "C", "S", "S", "|", "S", "h", "e", "e", "t", "s">>, <<"x">> }

DlInit ==
    /\ \E d \in UNION { [1..n -> DlLines] : n \in 1..MaxDlLines } :
          /\ dlines = [k \in 1..Len(d) |-> TextLine(d[k])]
          /\ dtext = Join(d, <<"\n">>)
    /\ dstage = "input"
    /\ header_map = HeaderIdMap_new /\ anchors = <<>>
    /\ TableIdle /\ ClassifyIdle /\ PluginIdle

SpecDefList == DlInit /\ [][DocNext]_vars

\* C16. No definition list is dropped: whatever happens to the payload of a
\* DEFINITION_LIST marker on its way to the restoration, and also when a term
\* holds a `}`, the term and the definition of every definition line of the
\* document are in the output, and no marker delimiter is.
DefinitionListKept ==
    dstage = "post" =>
        \A k \in 1..Len(dlines) :
            IsDefinitionLine(dlines[k].text) =>
                /\ Contains(dtext, DefinitionItem(dlines[k].text).term)
                /\ Contains(dtext, DefinitionItem(dlines[k].text).definition)

-----------------------------------------------------------------------------
(* SpecOpaque: plugin calls whose name, args and content hold Markdown      *)
(* syntax go through the protectors and the plugin restoration.             *)

OpaqueFunctions == { <<"f">>, <<"m", "y", "_", "f", "n">> }

OpaqueArgs == { <<>>, <<"a">>, <<"*", "a", "*">>, <<"[", "a", "]">>, <<"a", "_", "b">> }

OpaqueContents == { <<>>, <<"c">>, <<"*", "c", "*">>, <<"[", "c", "]">> }

OpaqueCalls ==
    { Call(fm, f, a, c) : fm \in {"inline", "block_single", "block_multi"},
                          f \in OpaqueFunctions, a \in OpaqueArgs, c \in OpaqueContents }
    \cup { Call(fm, f, a, <<>>) : fm \in {"inline_argsonly", "block_argsonly"},
                                  f \in OpaqueFunctions, a \in OpaqueArgs }
    \cup { Call("inline_noargs", f, <<>>, <<>>) : f \in OpaqueFunctions }

OpaqueInit ==
    /\ pcall \in OpaqueCalls
    /\ ptext = CallText(pcall)
    /\ pstage = "input"
    /\ pmarked = <<>> /\ captured = <<>> /\ restored = <<>>
    /\ TableIdle /\ ClassifyIdle /\ DocIdle

SpecOpaque == OpaqueInit /\ [][PluginNext]_vars

\* The characters of the claim that the renderer reads as Markdown syntax;
\* the grave accent of the claim's list is left out (no marker field of the
\* model holds one).
MARKDOWN_CHARS == { "*", "_", "[", "<", "&" }

PLUGIN_MARKER_KINDS ==
    { INLINE_PLUGIN, INLINE_PLUGIN_ARGSONLY, INLINE_PLUGIN_NOARGS, BLOCK_PLUGIN,
      BLOCK_PLUGIN_ARGSONLY }

\* C17. Marker text is renderer-opaque: in the text the protectors leave,
\* between the opening delimiter of a plugin marker and the closing
\* delimiter that follows it there is no `*`, `_`, `[`, `<` or `&`, whatever
\* the function name, the args and the content of the call were.
MarkerTextOpaque ==
    pstage = "protected" =>
        \A kind \in PLUGIN_MARKER_KINDS :
            \A i \in 1..Len(pmarked) :
                IsPrefixAt(pmarked, MarkerOpen(kind), i) =>
                    LET b == i + Len(MarkerOpen(kind))
                        t == FindFrom(pmarked, MarkerClose(kind), b)
                    IN  t # 0 => \A k \in b..(t - 1) : pmarked[k] \notin MARKDOWN_CHARS

-----------------------------------------------------------------------------
(* SpecEntity: texts made of `&name;` references go through the protectors  *)
(* and the plugin restoration.                                              *)

\* The largest number of references in one text.
MaxEntityRefs == 3

\* The names: three entity names, a plugin name, a name that starts like an
\* entity name, an entity name in upper case, a name with an underscore.
EntityNames == { <<"l", "t">>, <<"a", "m", "p">>, <<"n", "b", "s", "p">>, <<"f">>, <<"l", "t", "x">>, <<"L", "T">>, <<"a", "_", "b">> }

\* The text `&n1;&n2;...` of a sequence of names.
EntityText(names) ==
    Flatten([k \in 1..Len(names) |-> <<"&">> \o names[k] \o <<";">>])

EntityInit ==
    /\ \E names \in UNION { [1..n -> EntityNames] : n \in 1..MaxEntityRefs } :
          /\ pcall = [form |-> "entities", names |-> names]
          /\ ptext = EntityText(names)
    /\ pstage = "input"
    /\ pmarked = <<>> /\ captured = <<>> /\ restored = <<>>
    /\ TableIdle /\ ClassifyIdle /\ DocIdle

SpecEntity == EntityInit /\ [][PluginNext]_vars

\* C19. Reserved entity names are skipped: after protect_inline_plugins the
\* text holds, for every reference `&name;` of the input in its order, the
\* reference itself when the name is in html_entities and exactly one
\* INLINE_PLUGIN_NOARGS marker with that name otherwise; a text of
\* reserved references only is unchanged.
ReservedEntitiesSkipped ==
    (pstage = "inline_protected" /\ pcall.form = "entities") =>
        /\ ptext = Flatten([k \in 1..Len(pcall.names) |->
                      IF pcall.names[k] \in html_entities
                      THEN <<"&">> \o pcall.names[k] \o <<";">>
                      ELSE MarkerOpen(INLINE_PLUGIN_NOARGS) \o pcall.names[k]
                               \o MarkerClose(INLINE_PLUGIN_NOARGS)])
        /\ Occurrences(ptext, MarkerOpen(INLINE_PLUGIN_NOARGS))
              = Cardinality({ k \in 1..Len(pcall.names) : pcall.names[k] \notin html_entities })
        /\ (\A k \in 1..Len(pcall.names) : pcall.names[k] \in {<<"l", "t">>, <<"a", "m", "p">>, <<"n", "b", "s", "p">>}) =>
              ptext = EntityText(pcall.names)

\* The text `&lt;&f;&nbsp;` was protected: the two entity references are as
\* written and the plugin reference between them is one marker.
ReservedEntitiesSkippedWitness ==
    /\ pstage = "inline_protected"
    /\ pcall.form = "entities"
    /\ pcall.names = <<<<"l", "t">>, <<"f">>, <<"n", "b", "s", "p">>>>
    /\ ptext = <<"&", "l", "t", ";", "{", "{", "I", "N", "L", "I", "N", "E", "_", "P", "L", "U", "G", "I", "N", "_", "N", "O", "A", "R", "G", "S", ":", "f", ":", "I", "N", "L", "I", "N", "E", "_", "P", "L", "U", "G", "I", "N", "_", "N", "O", "A", "R", "G", "S", "}", "}", "&", "n", "b", "s", "p", ";">>

-----------------------------------------------------------------------------
(* SpecComments: remove_comments on documents with multi-line comments.     *)

\* The largest number of lines of a document with comments.
MaxCommentLines == 3

\* The lines: text, a comment opening, a comment closing, a comment inside a
\* line, a comment written inside a comment, a code fence, a comment that
\* holds a grave accent, inline code that holds comment delimiters.
CommentDocLines ==
    { <<"a">>, <<"/", "*", " ", "b">>, <<"c", " ", "*", "/", " ", "d">>, <<"x", " ", "/", "*", " ", "y", " ", "*", "/", " ", "z">>, <<"/", "*", " ", "u", " ", "/", "*", " ", "v", " ", "*", "/", " ", "w", " ", "*", "/">>, TILDE_FENCE,
      <<"/", "*", " ">> \o <<GRAVE>> \o <<" ", "q", " ", "*", "/", " ", "k">>,
      <<GRAVE>> \o <<"/", "*", " ", "r", " ", "*", "/">> \o <<GRAVE>> }

CommentInit ==
    /\ \E d \in UNION { [1..n -> CommentDocLines] : n \in 1..MaxCommentLines } :
          /\ dlines = [k \in 1..Len(d) |-> TextLine(d[k])]
          /\ dtext = Join(d, <<"\n">>)
    /\ dstage = "input"
    /\ header_map = HeaderIdMap_new /\ anchors = <<>>
    /\ TableIdle /\ ClassifyIdle /\ PluginIdle

\* preprocess_conflicts, line 197: remove_comments(input).
RemoveComments ==
    /\ dstage = "input"
    /\ dtext' = remove_comments(dtext)
    /\ dstage' = "uncommented"
    /\ UNCHANGED <<dlines, header_map, anchors, tableVars, classifyVars, pluginVars>>

CommentNext == RemoveComments

SpecComments == CommentInit /\ [][CommentNext]_vars

\* The characters of a line that are outside every comment, from offset i:
\* a comment starts at a `/*` outside inline code and ends at the first `*/`
\* after it, whatever is in between. st is [kept, in_comment, in_inline].
RECURSIVE OutsideComments(_, _, _)
OutsideComments(line, i, st) ==
    IF i > Len(line) THEN st
    ELSE IF st.in_comment
    THEN IF IsPrefixAt(line, <<"*", "/">>, i)
         THEN OutsideComments(line, i + 2, [st EXCEPT !.in_comment = FALSE])
         ELSE OutsideComments(line, i + 1, st)
    ELSE IF line[i] = GRAVE
    THEN OutsideComments(line, i + 1,
             [st EXCEPT !.in_inline = ~@, !.kept = Append(@, line[i])])
    ELSE IF ~st.in_inline /\ IsPrefixAt(line, <<"/", "*">>, i)
    THEN OutsideComments(line, i + 2, [st EXCEPT !.in_comment = TRUE])
    ELSE OutsideComments(line, i + 1, [st EXCEPT !.kept = Append(@, line[i])])

\* The characters of a document that are outside every comment. A fence
\* line outside a comment opens or closes fenced code, which is kept whole.
\* st is [kept, in_comment, in_fence].
RECURSIVE TextOutsideComments(_, _, _)
TextOutsideComments(lines, k, st) ==
    IF k > Len(lines) THEN st.kept
    ELSE IF ~st.in_comment /\ StartsWith(TrimStart(lines[k]), TILDE_FENCE)
    THEN TextOutsideComments(lines, k + 1,
             [st EXCEPT !.in_fence = ~@, !.kept = @ \o lines[k]])
    ELSE IF ~st.in_comment /\ st.in_fence
    THEN TextOutsideComments(lines, k + 1, [st EXCEPT !.kept = @ \o lines[k]])
    ELSE LET c == OutsideComments(lines[k], 1,
                      [kept |-> st.kept, in_comment |-> st.in_comment, in_inline |-> FALSE])
         IN  TextOutsideComments(lines, k + 1,
                 [st EXCEPT !.kept = c.kept, !.in_comment = c.in_comment])

\* A text without its spaces and line ends.
Squeeze(s) == SelectSeq(s, LAMBDA c : c \notin {" ", "\n"})

\* C20. Multi-line comments are removed: the output of remove_comments holds,
\* spaces and line ends aside, exactly the characters of the input that are
\* outside every comment, where a comment runs from a `/*` outside fenced
\* code and inline code to the first `*/` after it, also across lines and
\* over a grave accent or a code-fence line.
MultiLineCommentsRemoved ==
    dstage = "uncommented" =>
        Squeeze(dtext)
            = Squeeze(TextOutsideComments([k \in 1..Len(dlines) |-> dlines[k].text], 1,
                          [kept |-> <<>>, in_comment |-> FALSE, in_fence |-> FALSE]))

-----------------------------------------------------------------------------
(* Claims about span markers without a source and about what resolution     *)
(* leaves.                                                                  *)

\* The cell at (r, c) of the rows cs has no cell above it: it is in the
\* first row, or its column is out of range in the row before.
HasNoSource(cs, r, c) == r = 1 \/ c > Len(cs[r - 1])

\* Every `|^` cell of the rows cs has no cell above it.
NoRowspanCellHasSource(cs) ==
    \A r \in 1..Len(cs) : \A c \in 1..Len(cs[r]) :
        cs[r][c].content = ROWSPAN_MARKER => HasNoSource(cs, r, c)

\* C22. Rowspan marker without a source: a `|^` cell with no cell above it
\* is deleted from its row and no rowspan counter changes. Stated for the
\* tables in which no `|^` cell has a cell above it: process_rowspan leaves
\* the colspan-resolved rows without their `|^` cells, every other cell as
\* it was.
RowspanWithoutSource ==
    (tstage = "spanned" /\ NoRowspanCellHasSource(cols))
        => once = [r \in 1..Len(cols) |->
                      SelectSeq(cols[r], LAMBDA cell : cell.content # ROWSPAN_MARKER)]

\* C23. No span marker survives resolution: after process_cell_spanning no
\* cell's content ends with `|>` and no cell's content equals `|^`.
NoSpanMarkerSurvives ==
    tstage = "spanned" =>
        \A r \in 1..Len(rows) : \A c \in 1..Len(rows[r]) :
            /\ ~EndsWith(rows[r][c].content, COLSPAN_MARKER)
            /\ rows[r][c].content # ROWSPAN_MARKER

-----------------------------------------------------------------------------
(* Claims about the cell tokenizer. *)

\* The `|` at p of a line is a delimiter: it is the leading one, or it is
\* not immediately followed by `>` or `^`.
IsDelimiterPipe(line, p) ==
    /\ line[p] = "|"
    /\ p = 1 \/ ~(p < Len(line) /\ line[p + 1] \in {">", "^"})

\* The offsets of the delimiter pipes of a line, in order.
DelimiterPipes(line) == KeptIndices(LAMBDA p : IsDelimiterPipe(line, p), 1, Len(line))

\* The text between the m-th delimiter pipe of a line and the next one, or
\* the end of the line.
CellSegment(line, d, m) ==
    SubSeq(line, d[m] + 1, IF m < Len(d) THEN d[m + 1] - 1 ELSE Len(line))

\* C28. Cell tokenization: a `|` immediately followed by `>` or `^` never
\* ends a cell and both characters stay in the cell's text; every other `|`
\* after the leading one ends a cell. A row has as many cells as its trimmed
\* line has delimiter pipes, the leading one included, each cell holding the
\* trimmed text after its pipe; the line `|` alone gives a row without cells.
CellTokenization ==
    tstage = "tokenized" =>
        /\ Len(tok) = Len(tlines)
        /\ \A r \in 1..Len(tlines) :
              LET line == Trim(tlines[r])
                  d == DelimiterPipes(line)
              IN  IF line = <<"|">> THEN tok[r] = <<>>
                  ELSE /\ Len(tok[r]) = Len(d)
                       /\ \A m \in 1..Len(d) :
                             tok[r][m].content = Trim(CellSegment(line, d, m))

\* C28 witness: a line that ends with a delimiter pipe has given a trailing
\* empty cell, and a cell of the table holds its text with the `|>` after it.
CellTokenizationWitness ==
    /\ tstage = "tokenized"
    /\ \E r \in 1..Len(tok) :
          /\ EndsWith(tlines[r], <<"A", " ", "|">>)
          /\ Len(tok[r]) >= 2
          /\ tok[r][Len(tok[r])].content = <<>>
    /\ \E r \in 1..Len(tok) : \E c \in 1..Len(tok[r]) :
          tok[r][c].content = <<"A", " ", "|", ">">>

-----------------------------------------------------------------------------
(* Claims about the counters of the colspan pass. *)

\* The sum of the colspan counters of a row.
RECURSIVE ColspanSum(_)
ColspanSum(row) == IF row = <<>> THEN 0 ELSE Head(row).colspan + ColspanSum(Tail(row))

\* Row c holds cells of the tokenized row t in their order: c is t without
\* some of its cells, a kept cell differing at most by a stripped marker
\* and by its colspan.
IsOrderedRemainder(t, c) ==
    \E K \in SUBSET (1..Len(t)) :
        LET kept == KeptIndices(LAMBDA j : j \in K, 1, Len(t))
        IN  /\ Len(kept) = Len(c)
            /\ \A m \in 1..Len(c) :
                  /\ [c[m] EXCEPT !.content = <<>>, !.colspan = 1]
                       = [t[kept[m]] EXCEPT !.content = <<>>, !.colspan = 1]
                  /\ \/ c[m].content = t[kept[m]].content
                     \/ IsMarkerStripped(c[m].content, t[kept[m]].content)

\* C29. Colspan conserves columns: after process_colspan on freshly
\* tokenized rows, the colspan counters of a row add up to the number of
\* cells the row had, every colspan and rowspan counter is at least 1, and
\* the cells that remain are in the order they had.
ColspanConservesColumns ==
    tstage = "colspanned" =>
        \A r \in 1..Len(tok) :
            /\ ColspanSum(cols[r]) = Len(tok[r])
            /\ \A c \in 1..Len(cols[r]) : cols[r][c].colspan >= 1 /\ cols[r][c].rowspan >= 1
            /\ IsOrderedRemainder(tok[r], cols[r])

\* C29 witness: a row of four cells has lost cells to a fold and kept at
\* least two cells, one of them with a colspan above 1.
ColspanConservesColumnsWitness ==
    /\ tstage = "colspanned"
    /\ \E r \in 1..Len(tok) :
          /\ Len(tok[r]) = 4 /\ Len(cols[r]) \in {2, 3}
          /\ \E c \in 1..Len(cols[r]) : cols[r][c].colspan > 1

-----------------------------------------------------------------------------
(* SpecSpanSteps: process_colspan and process_rowspan loop step by loop     *)
(* step, on the rows the tokenizer returned.                                *)

\* The largest number of cells written in a table whose resolution is
\* followed step by step.
MaxStepCells == 3

\* A mutant of NextIndex: the index stays where it is.
NextIndex_Stuck(i) == i

\* `i += 1`, `row_idx += 1`, and the step of the for loops.
NextIndex(i) == i + 1

\* No call of parse_table has been made.
SpanStepInit == TableIdle /\ ClassifyIdle /\ PluginIdle /\ DocIdle

\* parse_table is called with the text of a table.
CallParseTable ==
    /\ tstage = Idle
    /\ tlines' \in TablesOf(MaxStepCells)
    /\ tstage' = "input"
    /\ UNCHANGED <<tok, cols, once, rows, thtml, loop, classifyVars, pluginVars, docVars>>

\* process_colspan, lines 17-18: the first row, `let mut i = 0`.
EnterColspan ==
    /\ tstage = "tokenized"
    /\ tstage' = "colspan"
    /\ loop' = [row |-> 1, i |-> 1, inner |-> FALSE, span |-> 1]
    /\ UNCHANGED <<tlines, tok, cols, once, rows, thtml, classifyVars, pluginVars, docVars>>

\* process_colspan, line 19: `i < row.len()` fails, the next row starts.
ColspanNextRow ==
    /\ tstage = "colspan" /\ ~loop.inner
    /\ loop.row <= Len(rows) /\ loop.i > Len(rows[loop.row])
    /\ loop' = [loop EXCEPT !.row = NextIndex(@), !.i = 1]
    /\ UNCHANGED <<tlines, tstage, tok, cols, once, rows, thtml, classifyVars, pluginVars, docVars>>

\* process_colspan, lines 20 and 33: no marker at i, `i += 1`.
ColspanSkip ==
    /\ tstage = "colspan" /\ ~loop.inner
    /\ loop.row <= Len(rows) /\ loop.i <= Len(rows[loop.row])
    /\ ~HasColspanMarker(rows[loop.row][loop.i])
    /\ loop' = [loop EXCEPT !.i = NextIndex(@)]
    /\ UNCHANGED <<tlines, tstage, tok, cols, once, rows, thtml, classifyVars, pluginVars, docVars>>

\* process_colspan, lines 20-26: a marker at i, the marker is removed,
\* `span = 1`, the inner loop starts.
ColspanStrip ==
    /\ tstage = "colspan" /\ ~loop.inner
    /\ loop.row <= Len(rows) /\ loop.i <= Len(rows[loop.row])
    /\ HasColspanMarker(rows[loop.row][loop.i])
    /\ rows' = [rows EXCEPT ![loop.row][loop.i].content = StripColspanMarker(@)]
    /\ loop' = [loop EXCEPT !.inner = TRUE, !.span = 1]
    /\ UNCHANGED <<tlines, tstage, tok, cols, once, thtml, classifyVars, pluginVars, docVars>>

\* process_colspan, lines 27-30: one step of the inner loop.
ColspanRemove ==
    /\ tstage = "colspan" /\ loop.inner
    /\ loop.i + 1 <= Len(rows[loop.row])
    /\ IsMergedCell(rows[loop.row][loop.i + 1])
    /\ rows' = [rows EXCEPT ![loop.row] = RemoveAt(@, loop.i + 1)]
    /\ loop' = [loop EXCEPT !.span = @ + 1]
    /\ UNCHANGED <<tlines, tstage, tok, cols, once, thtml, classifyVars, pluginVars, docVars>>

\* process_colspan, lines 27 and 31-33: the inner loop ends, the span is
\* stored, `i += 1`.
ColspanSetSpan ==
    /\ tstage = "colspan" /\ loop.inner
    /\ ~(loop.i + 1 <= Len(rows[loop.row]) /\ IsMergedCell(rows[loop.row][loop.i + 1]))
    /\ rows' = [rows EXCEPT ![loop.row][loop.i].colspan = loop.span]
    /\ loop' = [loop EXCEPT !.inner = FALSE, !.i = NextIndex(@)]
    /\ UNCHANGED <<tlines, tstage, tok, cols, once, thtml, classifyVars, pluginVars, docVars>>

\* process_colspan returns; process_rowspan, lines 40-42: max_cols, the
\* first column, `let mut row_idx = 0`.
EnterRowspan ==
    /\ tstage = "colspan" /\ ~loop.inner /\ loop.row > Len(rows)
    /\ cols' = rows
    /\ tstage' = "rowspan"
    /\ loop' = [col |-> 1, row_idx |-> 1, max_cols |-> MaxLen(rows)]
    /\ UNCHANGED <<tlines, tok, once, rows, thtml, classifyVars, pluginVars, docVars>>

\* process_rowspan, line 43: `row_idx < rows.len()` fails, the next column.
RowspanNextCol ==
    /\ tstage = "rowspan"
    /\ loop.col <= loop.max_cols /\ loop.row_idx > Len(rows)
    /\ loop' = [loop EXCEPT !.col = NextIndex(@), !.row_idx = 1]
    /\ UNCHANGED <<tlines, tstage, tok, cols, once, rows, thtml, classifyVars, pluginVars, docVars>>

\* process_rowspan, lines 44-51: a `|^` cell with a cell above it.
RowspanFold ==
    /\ tstage = "rowspan"
    /\ loop.col <= loop.max_cols /\ loop.row_idx <= Len(rows)
    /\ IsRowspanCell(rows, loop.row_idx, loop.col)
    /\ HasSourceAbove(rows, loop.row_idx, loop.col)
    /\ rows' = [rows EXCEPT ![loop.row_idx - 1][loop.col].rowspan = @ + 1,
                            ![loop.row_idx] = RemoveAt(@, loop.col)]
    /\ loop' = [loop EXCEPT !.row_idx = NextIndex(@)]
    /\ UNCHANGED <<tlines, tstage, tok, cols, once, thtml, classifyVars, pluginVars, docVars>>

\* process_rowspan, lines 44-51: any other cell, `row_idx += 1`.
RowspanSkip ==
    /\ tstage = "rowspan"
    /\ loop.col <= loop.max_cols /\ loop.row_idx <= Len(rows)
    /\ ~(IsRowspanCell(rows, loop.row_idx, loop.col)
         /\ HasSourceAbove(rows, loop.row_idx, loop.col))
    /\ loop' = [loop EXCEPT !.row_idx = NextIndex(@)]
    /\ UNCHANGED <<tlines, tstage, tok, cols, once, rows, thtml, classifyVars, pluginVars, docVars>>

\* process_rowspan returns.
ExitRowspan ==
    /\ tstage = "rowspan" /\ loop.col > loop.max_cols
    /\ once' = rows
    /\ tstage' = "spanned"
    /\ loop' = <<>>
    /\ UNCHANGED <<tlines, tok, cols, rows, thtml, classifyVars, pluginVars, docVars>>

\* The steps of process_cell_spanning.
SpanLoopStep ==
    \/ EnterColspan
    \/ ColspanNextRow
    \/ ColspanSkip
    \/ ColspanStrip
    \/ ColspanRemove
    \/ ColspanSetSpan
    \/ EnterRowspan
    \/ RowspanNextCol
    \/ RowspanFold
    \/ RowspanSkip
    \/ ExitRowspan

SpanStepNext ==
    \/ CallParseTable
    \/ ReturnAsIs
    \/ Tokenize
    \/ SpanLoopStep

SpecSpanSteps == SpanStepInit /\ [][SpanStepNext]_vars

\* The program runs its next statement: once process_cell_spanning is
\* called, a step that can be taken is taken.
SpecSpanStepsFair == SpecSpanSteps /\ WF_vars(SpanLoopStep)

\* The number of cells of the rows rs.
RECURSIVE CellCount(_)
CellCount(rs) == IF rs = <<>> THEN 0 ELSE Len(Head(rs)) + CellCount(Tail(rs))

\* A step of the loops of process_colspan and process_rowspan.
IsLoopStep == tstage \in {"colspan", "rowspan"} /\ tstage' = tstage

\* The step advances an index of its loop.
IndexAdvances ==
    IF tstage = "colspan"
    THEN loop'.row > loop.row \/ (loop'.row = loop.row /\ loop'.i > loop.i)
    ELSE loop'.col > loop.col \/ (loop'.col = loop.col /\ loop'.row_idx > loop.row_idx)

\* The step removes one cell.
OneCellRemoved == CellCount(rows') = CellCount(rows) - 1

\* The step opens the inner loop of process_colspan: the first half of a
\* step of the outer loop, whose second half advances i.
InnerLoopOpens == tstage = "colspan" /\ ~loop.inner /\ loop'.inner

\* No row has more cells than before and the number of rows is the same.
NoRowGrows ==
    /\ Len(rows') = Len(rows)
    /\ \A r \in 1..Len(rows) : Len(rows'[r]) <= Len(rows[r])

\* C27. Span resolution terminates and never grows a row: from every
\* tokenized table process_colspan and process_rowspan return; every step
\* of their loops advances an index or removes one cell, and no step adds a
\* cell to a row or a row to the table.
SpanResolutionTerminates ==
    /\ [][IsLoopStep => /\ IndexAdvances \/ OneCellRemoved \/ InnerLoopOpens
                        /\ NoRowGrows]_vars
    /\ (tstage = "tokenized") ~> (tstage = "spanned")

\* C27 witness: both loops have returned, the first after folding two cells
\* into one, the second after folding a `|^` cell.
SpanResolutionTerminatesWitness ==
    /\ tstage = "spanned"
    /\ \E r \in 1..Len(tok) : Len(cols[r]) <= Len(tok[r]) - 1
    /\ \E r \in 1..Len(cols) : Len(rows[r]) = Len(cols[r]) - 1

\* The steps compute what process_colspan and process_rowspan return.
StepsAgreeWithFunctions ==
    tstage = "spanned" => cols = process_colspan(tok) /\ rows = process_rowspan(cols)

-----------------------------------------------------------------------------
(* SpecCalls: two calls of parse_with_frontmatter run interleaved, one step  *)
(* of one call at a time. The doc variables hold, for each call, the value   *)
(* of that call's local: dtext[c] is the text of call c, header_map[c] the   *)
(* HeaderIdMap that call c created.                                          *)

\* The largest number of lines of a document of the two calls.
MaxCallLines == 1

\* The calls.
Calls == {1, 2}

\* Every call works on the one map.
MapOf_Shared(c) == 1

\* preprocess_conflicts, line 199: `let mut header_map = HeaderIdMap::new()`
\* is a local of the call; it is returned to parse_with_frontmatter, which
\* hands a reference to apply_extensions_with_headers. The heading counters
\* (lines 200, 559) and the table counter (parser.rs, line 282) are locals
\* of the functions that count.
MapOf(c) == c

\* The documents of the calls: the documents of SpecDoc and of SpecExtract
\* of at most MaxCallLines lines.
CallDocuments ==
    { [k \in 1..Len(d) |-> d[k].text] : d \in UNION { [1..n -> DocLines] : n \in 0..MaxCallLines } }
        \cup { d \in ExtractDocuments : Len(d) <= MaxCallLines }

CallsInit ==
    /\ dlines \in [Calls -> CallDocuments]
    /\ dtext = [c \in Calls |-> JoinLines(dlines[c])]
    /\ dstage = [c \in Calls |-> "input"]
    /\ header_map = [c \in Calls |-> HeaderIdMap_new]
    /\ anchors = [c \in Calls |-> <<>>]
    /\ TableIdle /\ ClassifyIdle /\ PluginIdle

\* lib.rs, line 130, in call c
CallPreprocess(c) ==
    /\ dstage[c] = "input"
    /\ \E r \in { preprocess_conflicts(dtext[c]) } :
           /\ dtext' = [dtext EXCEPT ![c] = r.text]
           /\ header_map' = [header_map EXCEPT ![MapOf(c)] = [ids |-> r.ids, tables |-> r.tables]]
    /\ dstage' = [dstage EXCEPT ![c] = "preprocessed"]
    /\ UNCHANGED <<dlines, anchors, tableVars, classifyVars, pluginVars>>

\* lib.rs, line 137, in call c
CallRender(c) ==
    /\ dstage[c] = "preprocessed"
    /\ dtext' = [dtext EXCEPT ![c] = parse_to_html(dtext[c])]
    /\ dstage' = [dstage EXCEPT ![c] = "rendered"]
    /\ UNCHANGED <<dlines, header_map, anchors, tableVars, classifyVars, pluginVars>>

\* lib.rs, line 143, in call c
CallPostprocess(c) ==
    /\ dstage[c] = "rendered"
    /\ \E r \in { postprocess_conflicts(dtext[c], header_map[MapOf(c)]) } :
           /\ dtext' = [dtext EXCEPT ![c] = r.text]
           /\ anchors' = [anchors EXCEPT ![c] = r.anchors]
    /\ dstage' = [dstage EXCEPT ![c] = "post"]
    /\ UNCHANGED <<dlines, header_map, tableVars, classifyVars, pluginVars>>

CallsNext == \E c \in Calls : CallPreprocess(c) \/ CallRender(c) \/ CallPostprocess(c)

SpecCalls == CallsInit /\ [][CallsNext]_vars

\* The HTML of a document parsed alone.
ParseAlone(d) ==
    Only({ postprocess_conflicts(parse_to_html(pre.text),
                                 [ids |-> pre.ids, tables |-> pre.tables]).text
           : pre \in { preprocess_conflicts(JoinLines(d)) } })

\* C21. No state is shared between parse calls: whatever the interleaving
\* of the steps of two calls, the HTML a call returns is the HTML of its
\* document parsed alone.
CallsIndependent ==
    \A c \in Calls : dstage[c] = "post" => dtext[c] = ParseAlone(dlines[c])

\* C21 witness: both calls have returned; each document has a custom header
\* id or a table of the custom grammar, and the maps of the calls differ.
CallsIndependentWitness ==
    /\ \A c \in Calls : dstage[c] = "post"
    /\ \A c \in Calls : header_map[c].ids # <<>> \/ header_map[c].tables # <<>>
    /\ header_map[1] # header_map[2]
    /\ header_map[1].ids # <<>> /\ header_map[2].tables # <<>>

-----------------------------------------------------------------------------
(* nested_blocks.rs *)

IsSpaceOrTab(c) == c \in {" ", "\t"}

\* indent_width: a tab counts 4, any other whitespace character 1.
indent_width(input) ==
    LET e == RunEnd(IsWhitespace, input, 1)
    IN  e + 3 * Cardinality({ k \in 1..e : input[k] = "\t" })

\* The offset of the last character of (?:[-+*])|(?:\d+\.) at i; 0 if
\* there is no list marker at i.
ListMarkerEnd(line, i) ==
    IF i <= Len(line) /\ line[i] \in {"-", "+", "*"} THEN i
    ELSE LET d == RunEnd(IsDecimalDigit, line, i)
         IN  IF d >= i /\ d + 1 <= Len(line) /\ line[d + 1] = "." THEN d + 1 ELSE 0

\* list_indent_width, with -1 for None. LIST_MARKER is
\* ^(?P<indent>[ \t]*)(?P<marker>(?:[-+*])|(?:\d+\.))\s+.+$
list_indent_width(line) ==
    LET e == RunEnd(IsSpaceOrTab, line, 1)
        m == ListMarkerEnd(line, e + 1)
    IN  IF m > 0 /\ m + 2 <= Len(line) /\ IsWhitespace(line[m + 1])
        THEN indent_width(SubSeq(line, 1, e))
        ELSE -1

\* indent_to
indent_to(line, target_indent) ==
    IF indent_width(line) >= target_indent THEN line
    ELSE [k \in 1..(target_indent - indent_width(line)) |-> " "] \o line

is_table_line(line) == StartsWith(TrimStart(line), <<"|">>)

is_blockquote_line(line) == StartsWith(TrimStart(line), <<">">>)

is_block_plugin_line(line) == StartsWith(TrimStart(line), <<"@">>)

\* is_code_fence_line: the fence marker, <<>> for None.
is_code_fence_line(line) ==
    IF StartsWith(TrimStart(line), GRAVE_FENCE) THEN GRAVE_FENCE
    ELSE IF StartsWith(TrimStart(line), TILDE_FENCE) THEN TILDE_FENCE
    ELSE <<>>

\* is_block_placement_prefix: PLACEMENT_PREFIX is ^(LEFT|CENTER|RIGHT|JUSTIFY):\s*$
is_block_placement_prefix(line) ==
    \E w \in { <<"L", "E", "F", "T">>, <<"C", "E", "N", "T", "E", "R">>,
               <<"R", "I", "G", "H", "T">>, <<"J", "U", "S", "T", "I", "F", "Y">> } :
        /\ StartsWith(TrimStart(line), w \o <<":">>)
        /\ Trim(TrimStart(line)) = w \o <<":">>

\* The index after the block that starts at start: the lines of a table or
\* of a quote (indent_table_block, indent_blockquote_block), the lines of a
\* fenced code block up to its closing fence (indent_code_fence_block), the
\* line of a block plugin and, when it holds `{{`, the lines up to the
\* first later line with `}}` (indent_plugin_block).
NestedBlockEnd(lines, start) ==
    LET n == Len(lines)
        UpTo(S) == IF S = {} THEN n + 1 ELSE (CHOOSE k \in S : \A j \in S : k <= j)
    IN  IF is_table_line(lines[start])
        THEN UpTo({ k \in start..n : ~is_table_line(lines[k]) })
        ELSE IF is_blockquote_line(lines[start])
        THEN UpTo({ k \in start..n : ~is_blockquote_line(lines[k]) })
        ELSE IF is_code_fence_line(lines[start]) # <<>>
        THEN UpTo({ k + 1 : k \in { j \in (start + 1)..n :
                        StartsWith(TrimStart(lines[j]), is_code_fence_line(lines[start])) } })
        ELSE IF is_block_plugin_line(lines[start])
        THEN IF ~Contains(lines[start], <<"{", "{">>) THEN start + 1
             ELSE UpTo({ k + 1 : k \in { j \in (start + 1)..n : Contains(lines[j], <<"}", "}">>) } })
        ELSE start

\* The loops of preprocess_nested_blocks from line i on; list_indent is the
\* indent of the list item whose inner loop runs, -1 in the outer loop.
RECURSIVE NestedBlocksFrom(_, _, _, _)
NestedBlocksFrom(lines, i, output, list_indent) ==
    IF i > Len(lines) THEN output
    ELSE IF list_indent < 0
    THEN NestedBlocksFrom(lines, i + 1, Append(output, lines[i]), list_indent_width(lines[i]))
    ELSE IF Trim(lines[i]) = <<>>
    THEN NestedBlocksFrom(lines, i + 1, Append(output, lines[i]), list_indent)
    ELSE IF list_indent_width(lines[i]) >= 0
    THEN IF list_indent_width(lines[i]) <= list_indent
         THEN NestedBlocksFrom(lines, i, output, -1)
         ELSE NestedBlocksFrom(lines, i + 1, Append(output, lines[i]), list_indent)
    ELSE IF indent_width(lines[i]) > list_indent
    THEN NestedBlocksFrom(lines, i + 1, Append(output, lines[i]), list_indent)
    ELSE IF NestedBlockEnd(lines, i) > i
    THEN NestedBlocksFrom(lines, NestedBlockEnd(lines, i),
             output \o [k \in 1..(NestedBlockEnd(lines, i) - i) |->
                           indent_to(lines[i + k - 1], list_indent + 4)],
             list_indent)
    ELSE IF /\ is_block_placement_prefix(lines[i])
            /\ i + 1 <= Len(lines)
            /\ (is_table_line(lines[i + 1]) \/ is_block_plugin_line(lines[i + 1]))
    THEN NestedBlocksFrom(lines, i + 1, Append(output, indent_to(lines[i], list_indent + 4)),
                          list_indent)
    ELSE NestedBlocksFrom(lines, i + 1, Append(output, lines[i]), list_indent)

\* preprocess_nested_blocks
preprocess_nested_blocks(input) ==
    Join(NestedBlocksFrom(str_lines(input), 1, <<>>, -1), <<"\n">>)

-----------------------------------------------------------------------------
(* preprocessor.rs: the task list and underline placeholders *)

TASK_INDETERMINATE == <<"{", "{", "T", "A", "S", "K", "_", "I", "N", "D", "E", "T", "E", "R", "M", "I", "N", "A", "T", "E", "}", "}">>

\* TASKLIST_INDETERMINATE.replace(line, "$1[ ]{{TASK_INDETERMINATE}}$2");
\* the pattern is ^([ \t]*(?:[-+*]|\d+\.)\s+)\[-\](\s|$)
TasklistLine(line) ==
    LET e == RunEnd(IsSpaceOrTab, line, 1)
        m == ListMarkerEnd(line, e + 1)
        w == IF m = 0 THEN 0 ELSE RunEnd(IsWhitespace, line, m + 1)
    IN  IF /\ m > 0 /\ w > m
           /\ IsPrefixAt(line, <<"[", "-", "]">>, w + 1)
           /\ (w + 3 = Len(line) \/ IsWhitespace(line[w + 4]))
        THEN SubSeq(line, 1, w) \o <<"[", " ", "]">> \o TASK_INDETERMINATE
                 \o SubSeq(line, w + 4, Len(line))
        ELSE line

\* The loop of preprocess_tasklist_indeterminate from line i on; fence is
\* code_fence_marker while in_code_block, <<>> otherwise.
RECURSIVE TasklistFrom(_, _, _, _)
TasklistFrom(lines, i, fence, result) ==
    IF i > Len(lines) THEN result
    ELSE IF is_code_fence_line(lines[i]) # <<>>
    THEN TasklistFrom(lines, i + 1,
             IF fence = <<>> THEN is_code_fence_line(lines[i])
             ELSE IF Contains(TrimStart(lines[i]), fence) THEN <<>> ELSE fence,
             result \o lines[i] \o <<"\n">>)
    ELSE IF fence # <<>>
    THEN TasklistFrom(lines, i + 1, fence, result \o lines[i] \o <<"\n">>)
    ELSE TasklistFrom(lines, i + 1, fence, result \o TasklistLine(lines[i]) \o <<"\n">>)

\* preprocess_tasklist_indeterminate
preprocess_tasklist_indeterminate(input) ==
    Only({ IF ~EndsWith(input, <<"\n">>) /\ EndsWith(result, <<"\n">>)
           THEN SubSeq(result, 1, Len(result) - 1) ELSE result
           : result \in { TasklistFrom(str_lines(input), 1, <<>>, <<>>) } })

NotUnderscore(c) == c # "_"

\* DISCORD_UNDERLINE: __([^_]+)__
DISCORD_UNDERLINE(s, i) ==
    LET e == RunEnd(NotUnderscore, s, i + 2)
    IN  IF IsPrefixAt(s, <<"_", "_">>, i) /\ e >= i + 2 /\ IsPrefixAt(s, <<"_", "_">>, e + 1)
        THEN Captures("UNDERLINE", e + 2, <<>>, <<>>, SubSeq(s, i + 2, e))
        ELSE NoMatch

\* The replacement "{{UNDERLINE:$1:UNDERLINE}}"
UnderlineMarker(m, n) == <<"{", "{", "U", "N", "D", "E", "R", "L", "I", "N", "E", ":">> \o m.content \o <<":", "U", "N", "D", "E", "R", "L", "I", "N", "E", "}", "}">>

\* preprocess_discord_underline
preprocess_discord_underline(input) == ReplaceAll(input, DISCORD_UNDERLINE, UnderlineMarker).text

-----------------------------------------------------------------------------
(* SpecPre: a document goes through the pre-processing stages of             *)
(* parse_with_frontmatter (lib.rs, lines 121-130), one stage a step. The     *)
(* documents hold no front matter.                                           *)

\* The largest number of lines of a document.
MaxPreLines == 3

\* The lines of the documents: a list item with an indeterminate task, a
\* table row, an underline with a line comment in it, a heading with a
\* custom id, a block plugin call with an inline call in its content, text.
PreLines ==
    { <<"-", " ", "[", "-", "]", " ", "t">>, <<"|", " ", "a", " ", "|">>, <<"_", "_", "a", " ", "/", "/", " ", "b", "_", "_">>, <<"#", " ", "A", " ", "{", "#", "a", "}">>, <<"@", "f", "(", ")", "{", "{", "x", " ", "&", "i", ";", " ", "y", "}", "}">>, <<"x">> }

PreDocuments == UNION { [1..n -> PreLines] : n \in 0..MaxPreLines }

PreInit ==
    /\ dlines \in PreDocuments
    /\ dtext = Join(dlines, <<"\n">>)
    /\ dstage = "input"
    /\ header_map = HeaderIdMap_new /\ anchors = <<>>
    /\ TableIdle /\ ClassifyIdle /\ PluginIdle

\* lib.rs, line 121
NestedBlocks ==
    /\ dstage = "input"
    /\ dtext' = preprocess_nested_blocks(dtext)
    /\ dstage' = "nested"
    /\ UNCHANGED <<dlines, header_map, anchors, tableVars, classifyVars, pluginVars>>

\* lib.rs, line 124
TasklistIndeterminate ==
    /\ dstage = "nested"
    /\ dtext' = preprocess_tasklist_indeterminate(dtext)
    /\ dstage' = "tasklist"
    /\ UNCHANGED <<dlines, header_map, anchors, tableVars, classifyVars, pluginVars>>

\* lib.rs, line 127
DiscordUnderline ==
    /\ dstage = "tasklist"
    /\ dtext' = preprocess_discord_underline(dtext)
    /\ dstage' = "underline"
    /\ UNCHANGED <<dlines, header_map, anchors, tableVars, classifyVars, pluginVars>>

\* lib.rs, line 130
ResolveConflicts ==
    /\ dstage = "underline"
    /\ \E r \in { preprocess_conflicts(dtext) } :
           dtext' = r.text /\ header_map' = [ids |-> r.ids, tables |-> r.tables]
    /\ dstage' = "preprocessed"
    /\ UNCHANGED <<dlines, anchors, tableVars, classifyVars, pluginVars>>

PreNext == NestedBlocks \/ TasklistIndeterminate \/ DiscordUnderline \/ ResolveConflicts

SpecPre == PreInit /\ [][PreNext]_vars

\* The stages applied once each, every stage to the output of the stage
\* before it: comments, nested blocks, task lists, underline, header ids,
\* block decorations, block plugins, inline plugins, tables, definition
\* lists. The documents hold no `> ... <` quote.
StagesInOrder(input) ==
    Only({ process_definition_lists(extract_umd_tables(protected.text).result)
           : protected \in { protect_inline_plugins(protect_block_plugins(
                 AndThen(AndThen(AndThen(
                     [text |-> ReplaceAll(
                                   preprocess_discord_underline(
                                       preprocess_tasklist_indeterminate(
                                           preprocess_nested_blocks(remove_comments(input)))),
                                   CUSTOM_HEADER_ID, HeadingWithoutId).text,
                      caps |-> <<>>],
                     color_prefix, DecorationMarker),
                     size_prefix, DecorationMarker),
                     align_prefix, DecorationMarker))) } })

\* C24. Pre-processing order: the text handed to the renderer is the input
\* after comment stripping, nested-list indentation, task-list placeholders,
\* underline placeholders, header id extraction, blockquote protection,
\* block decoration protection, block plugin protection, inline plugin
\* protection, table extraction and definition list protection, in this
\* order, each applied once to the output of the stage before it.
PreprocessingOrder ==
    dstage = "preprocessed" => dtext = StagesInOrder(Join(dlines, <<"\n">>))

-----------------------------------------------------------------------------
(* Claims about the order of the plugin patterns. *)

\* The kind of marker of a call form. `@f()` is a block call with empty
\* args: protect_block_plugins has no pattern of its own for it.
KindOfForm(form) ==
    CASE form \in {"inline_content", "inline"}      -> INLINE_PLUGIN
      [] form = "inline_argsonly"                   -> INLINE_PLUGIN_ARGSONLY
      [] form = "inline_noargs"                     -> INLINE_PLUGIN_NOARGS
      [] form \in {"block_multi", "block_single"}   -> BLOCK_PLUGIN
      [] form = "block_argsonly"                    -> BLOCK_PLUGIN_ARGSONLY

IsBlockForm(form) == form \in {"block_multi", "block_single", "block_argsonly"}

\* A call alone in the document whose content is text without brace and
\* without plugin call, and whose name is not a reserved entity name.
IsPlainCall(call) ==
    /\ \A i \in 1..Len(call.content) : call.content[i] \notin {"{", "}", "&", "@"}
    /\ call.function \in Functions

\* The text is one marker of the given kind and nothing else.
IsOneMarker(text, kind) ==
    /\ StartsWith(text, MarkerOpen(kind))
    /\ EndsWith(text, MarkerClose(kind))
    /\ FindFrom(text, <<"{", "{">>, 2) = 0
    /\ FindFrom(text, <<"}", "}">>, 1) = Len(text) - 1

\* After the protectors a plain call is one marker of the kind of its form,
\* made by one capture, with no character of the call outside it.
OneMarkerOfOwnKind ==
    (pstage = "protected" /\ IsPlainCall(pcall)) =>
        /\ Len(captured) = 1
        /\ captured[1].kind = KindOfForm(pcall.form)
        /\ IsOneMarker(pmarked, KindOfForm(pcall.form))

\* When the inline patterns have been applied, the block patterns have been
\* applied before them: a block call is a marker by then.
BlockPatternsFirst ==
    (pstage = "inline_protected" /\ IsPlainCall(pcall) /\ IsBlockForm(pcall.form)) =>
        IsOneMarker(ptext, KindOfForm(pcall.form))

\* C25. Protector specificity: the plugin patterns are applied in the order
\* block multi-line, block single-line, block args only, block no args,
\* inline content without args, inline args and content, inline args only,
\* inline no args; each supported call form, alone in a document, yields
\* exactly one marker of the kind of its own form and leaves no character
\* of the call outside the marker.
ProtectorSpecificity == BlockPatternsFirst /\ OneMarkerOfOwnKind

-----------------------------------------------------------------------------
(* SpecPost: a document goes through preprocess_conflicts and the renderer,  *)
(* then through the stages of postprocess_conflicts, one group of stages a   *)
(* step. The rendered documents hold no blockquote marker, no link, no       *)
(* checkbox, no alert and no table of the renderer.                          *)

\* The largest number of lines of a document.
MaxPostLines == 3

\* The lines of the documents: a table row of the custom grammar, two
\* definition list lines, a heading, text.
PostLines == { <<"|", " ", "a", " ", "|">>, <<":", "H", "T", "M", "L", "|", "M", "a", "r", "k", "u", "p">>, <<":", "C", "S", "S", "|", "S", "h", "e", "e", "t", "s">>, <<"#", " ", "A">>, <<"x">> }

PostDocuments == UNION { [1..n -> PostLines] : n \in 0..MaxPostLines }

PostInit ==
    /\ dlines \in PostDocuments
    /\ dtext = Join(dlines, <<"\n">>)
    /\ dstage = "input"
    /\ header_map = HeaderIdMap_new /\ anchors = <<>>
    /\ TableIdle /\ ClassifyIdle /\ PluginIdle

\* postprocess_conflicts, lines 556-581: quote un-escaping, anchor injection
InjectAnchors ==
    /\ dstage = "rendered"
    /\ \E headed \in { ReplaceAll(unescape_marker_quotes(dtext), header_regex,
                                  LAMBDA m, n : HeadingWithAnchor(header_map.ids, m, n)) } :
           /\ dtext' = headed.text
           /\ anchors' = [n \in 1..Len(headed.caps) |->
                             [title |-> headed.caps[n].content,
                              id |-> AnchorId(header_map.ids, n)]]
    /\ dstage' = "anchored"
    /\ UNCHANGED <<dlines, header_map, tableVars, classifyVars, pluginVars>>

\* postprocess_conflicts, lines 583-767: blockquote, block decoration and
\* plugin restoration
RestoreMarkers ==
    /\ dstage = "anchored"
    /\ dtext' = restore_plugins(
                    [text |-> ReplaceAll(dtext, block_decoration_marker, DecorationHtml).text,
                     caps |-> <<>>]).text
    /\ dstage' = "plugins_restored"
    /\ UNCHANGED <<dlines, header_map, anchors, tableVars, classifyVars, pluginVars>>

\* postprocess_conflicts, lines 769-794
RestoreDefinitionLists ==
    /\ dstage = "plugins_restored"
    /\ dtext' = restore_definition_lists(dtext)
    /\ dstage' = "lists_restored"
    /\ UNCHANGED <<dlines, header_map, anchors, tableVars, classifyVars, pluginVars>>

\* The default classes of apply_bootstrap_enhancements, lines 837-847.
default_classes(html) ==
    StrReplace(StrReplace(html, <<"<", "t", "a", "b", "l", "e", ">">>, <<"<", "t", "a", "b", "l", "e", " ", "c", "l", "a", "s", "s", "=", "\"", "t", "a", "b", "l", "e", "\"", ">">>),
               <<"<", "b", "l", "o", "c", "k", "q", "u", "o", "t", "e", ">">>, <<"<", "b", "l", "o", "c", "k", "q", "u", "o", "t", "e", " ", "c", "l", "a", "s", "s", "=", "\"", "b", "l", "o", "c", "k", "q", "u", "o", "t", "e", "\"", ">">>)

\* postprocess_conflicts, lines 796-803, and apply_bootstrap_enhancements,
\* lines 835-876: link attributes, task list markers, default classes, alerts
InjectDefaultClasses ==
    /\ dstage = "lists_restored"
    /\ dtext' = default_classes(dtext)
    /\ dstage' = "classes_injected"
    /\ UNCHANGED <<dlines, header_map, anchors, tableVars, classifyVars, pluginVars>>

\* apply_bootstrap_enhancements, lines 878-889: table restoration, then the
\* cell alignment pass over the tables of the renderer
RestoreTableSentinels ==
    /\ dstage = "classes_injected"
    /\ dtext' = RestoreTables(dtext, header_map.tables, 1)
    /\ dstage' = "post"
    /\ UNCHANGED <<dlines, header_map, anchors, tableVars, classifyVars, pluginVars>>

PostNext ==
    \/ Preprocess
    \/ Render
    \/ InjectAnchors
    \/ RestoreMarkers
    \/ RestoreDefinitionLists
    \/ InjectDefaultClasses
    \/ RestoreTableSentinels

SpecPost == PostInit /\ [][PostNext]_vars

\* The steps compute what postprocess_conflicts returns.
PostStepsAgree == dstage = "post" => dtext = ParseAlone(dlines)

\* A table sentinel is left in the text.
SentinelLeft ==
    \E k \in 1..Len(header_map.tables) : Contains(dtext, Trim(header_map.tables[k].marker))

\* C26. Post-processing order: quote un-escaping, anchor injection,
\* blockquote, block decoration and plugin restoration, table sentinel
\* restoration, definition list restoration, link attributes, default
\* classes and alerts, cell alignment; in particular the table sentinels are
\* replaced before the definition lists are restored and before the default
\* table class is injected: when the definition lists have been restored,
\* and when the default classes have been injected, the text holds no
\* sentinel.
PostprocessingOrder ==
    dstage \in {"lists_restored", "classes_injected"} => ~SentinelLeft

-----------------------------------------------------------------------------
(* SpecAnchors: SpecDoc's steps on documents whose headings carry custom    *)
(* ids that are numbers.                                                     *)

\* The largest number of lines of a document.
MaxAnchorLines == 3

\* The lines of the documents: headings without id, with the ids `2`, `1`
\* and `c`, and text.
AnchorLines ==
    { HeadingLine(<<"#">>, <<"A">>, <<>>), HeadingLine(<<"#">>, <<"B">>, <<"2">>),
      HeadingLine(<<"#", "#">>, <<"C">>, <<"c">>), HeadingLine(<<"#">>, <<"D">>, <<"1">>), TextLine(<<"x">>) }

AnchorInit ==
    /\ dlines \in UNION { [1..n -> AnchorLines] : n \in 0..MaxAnchorLines }
    /\ dtext = JoinLines([k \in 1..Len(dlines) |-> dlines[k].text])
    /\ dstage = "input"
    /\ header_map = HeaderIdMap_new /\ anchors = <<>>
    /\ TableIdle /\ ClassifyIdle /\ PluginIdle

SpecAnchors == AnchorInit /\ [][DocNext]_vars

\* The custom ids written in the document are pairwise distinct.
CustomIdsDistinct ==
    \A j, k \in 1..Len(dlines) :
        (j # k /\ dlines[j].id # <<>> /\ dlines[k].id # <<>>) => dlines[j].id # dlines[k].id

\* C30. Anchor ids are unique within a document: when the custom ids
\* written in the document are pairwise distinct, the anchor ids that
\* postprocess_conflicts injects are pairwise distinct.
AnchorIdsUnique ==
    (dstage = "post" /\ CustomIdsDistinct) =>
        \A j, k \in 1..Len(anchors) : j # k => anchors[j].id # anchors[k].id

====
